---------------------------- MODULE Spec2Model ----------------------------
(***************************************************************************)
(* A model of the streaming frame pipeline of pintu (smart doorbell):      *)
(*   - imaging.FrameBuffer           (SpecBuffer)                          *)
(*   - util.sample_stream            (SpecSample, SpecSampleLive)          *)
(*   - capture.capture               (SpecCapture)                         *)
(*   - record._record_on_demand_loop (SpecRecord)                          *)
(*   - gpio.initialize / gpio.handle (SpecGpio)                            *)
(*   - record.get_recordings         (SpecHistory)                         *)
(*   - util.stream_id                (SpecStreamId)                        *)
(*   - gpio.initialize / graceful_shutdown (SpecPins)                      *)
(*   - gpio.unlock_door / lock_door  (SpecActuator)                        *)
(*   - api.do_unlock_door            (SpecUnlock)                          *)
(*   - detection.analyze_stream      (SpecDetect)                          *)
(*   - imaging.Image.encode / decode (SpecCodec)                           *)
(*   - imaging.FrameBuffer.extract_layers (SpecLayers)                     *)
(*   - the coordinator on a store holding requests (SpecParse)             *)
(*   - the blob fetch of both record loops (SpecFetch)                     *)
(* Timestamps are integers (one unit = one second in the recording model,  *)
(* one unit = one millisecond of source position in the capture model);    *)
(* 0 stands for util.UTC_DATETIME_MIN.  A stream id is the timestamp it is *)
(* derived from (util.stream_id is strictly monotonic on UTC timestamps).  *)
(***************************************************************************)
EXTENDS Integers, Sequences, FiniteSets, TLC

(***************************************************************************)
(* Bounds of the model.                                                    *)
(***************************************************************************)
MaxCap == 3          \* largest FrameBuffer capacity (maxlen) explored
MaxShifts == 5       \* number of shift calls explored
NumFrameIds == 2     \* distinct frame objects that may be shifted

MaxId == 4           \* largest stream id appended to a tailed stream
TailMaxLen == 2      \* maxlen of the tailed stream (approximate trimming)
MaxClock == 4        \* sample_stream: clock ticks (one tick = one sleep)
MaxTimeout == 2      \* sample_stream: largest idle timeout, in ticks

MaxBuf == 2          \* capture: largest buffer_size explored
MaxGrabs == 4        \* capture: frames grabbed from the video source
MaxDelta == 3        \* capture: largest position step between two grabs (ms)
SampleInterval == 2  \* capture: sample_interval_milliseconds
BufferInterval == 3  \* capture: buffer_interval (coarser than sampling)
Retention == 4       \* capture: retention, in the unit of SampleInterval
StartTime == 10      \* capture: start_time (now), as an offset from
                     \* UTC_DATETIME_MIN
PriorTop == 12       \* capture: id of an entry left in the capture stream
                     \* by an earlier run

T0 == 1              \* recording: the earliest requested start (seconds)
Horizon == 9         \* recording: capture frames lie in T0..T0+Horizon
NumReq == 2          \* recording: number of record() calls explored
MaxQueued == 2       \* recording: requests already queued at the start

HoursPerYear == 24   \* stream_id: length of a year, in the model's hours
MaxRecs == 3         \* history: records in the recording stream
MaxStart == 2        \* history: distinct recording starts
MaxEdges == 3        \* gpio: raw edges on the input pin explored
NumInputs == 3       \* gpio: entries of _PIN_EVENTS (doorbell, door, lock)
MaxCalls == 6        \* actuator: unlock_door and lock_door calls explored
NumUnlock == 3       \* control API: concurrent unlock requests explored
MaxSampled == 3      \* detection: capture records sampled
MaxDet == 2          \* detection: most detections returned for a frame
MaxPixel == 3        \* codec: largest pixel value of the frames explored
NumPixels == 2       \* codec: pixel values per frame
JpegStep == 2        \* codec: quantisation step of the lossy image format
TrailerFixed == 10   \* Image.encode: characters of "@", mlen, "#" and mver
MlenWidth == 5       \* Image.encode: width of the mlen field ({mlen:05})
MaxFetched == 3      \* blob fetch: records fetched by the two loops
MaxFrames == 2       \* layers: largest capacity of the full frame buffer
Channels == 3        \* layers: values per pixel (blue, green, red)
MaxByte == 255       \* numpy.uint8: the largest pixel value
GREY == 128          \* imaging.GREY, each of its three components

DOORBELL_DEBOUNCE_MS == 2000    \* default.DOORBELL_DEBOUNCE_MS
DOOR_SENSOR_DEBOUNCE_MS == 500  \* default.DOOR_SENSOR_DEBOUNCE_MS

UTC_DATETIME_MIN == 0  \* util.UTC_DATETIME_MIN, the origin of timestamps
NoVal == -1          \* a store value that is absent (GETSET returns None)
None == 0            \* Python's None, for frame ids and return values

\* capture.py:111  stream_length = int(retention.total_seconds() *
\* sample_rate + 0.5), with sample_rate = 1 / interval.
stream_length(retention, interval) ==
  (2 * retention + interval) \div (2 * interval)

\* capture.py:113  ttl = retention * 1.10, in tenths of the time unit.
ttl_tenths(retention) == retention * 11

StreamLength == stream_length(Retention, SampleInterval)

VARIABLES
  \* ---- imaging.FrameBuffer ----
  fb_maxlen,         \* deque.maxlen
  fb_items,          \* the deque's content, oldest first
  fb_shifted,        \* history: every frame passed to shift, in call order
  fb_return,         \* the value returned by the last shift (None if none)
  fb_before,         \* the deque's content before the last shift
  \* ---- util.sample_stream, tailing one stream ----
  ss_stream,         \* the tailed stream: ids of its entries, oldest first
  ss_topid,          \* the stream's last generated id (XADD must exceed it)
  ss_last,           \* last_processed_id; 0 is b"0-0"
  ss_pc,             \* "poll", "yielded" (suspended at yield), "stopped"
  ss_pending,        \* id of the record handed out by the pending yield
  ss_timeout,        \* timeout in ticks; 0 is None
  ss_now,            \* now() - last_fetched_time, in ticks
  ss_yielded,        \* history: ids of the records yielded, in order
  ss_lastpoll,       \* history: outcome of the latest poll
  \* ---- imaging.frames_from_video (the generator `frames`) ----
  gen_pos,           \* frame_pos_milliseconds of the last grabbed frame
  gen_next,          \* next_sample_pos_milliseconds
  gen_grabs,         \* number of cap.grab() calls that returned a frame
  gen_done,          \* the generator is exhausted (it left its loop)
  gen_strict,        \* history: every frame grabbed so far lies after the
                     \* frame grabbed before it
  \* ---- capture.capture ----
  cap_pc,            \* "start", "construct", "loop", "done"
  cap_buffer_size,   \* buffer_size
  cap_hasbuffer,     \* buffer is not None
  cap_buffer,        \* buffer: the FrameBuffer's content (timestamps)
  cap_next_buffer_timestamp,  \* next_buffer_timestamp
  cap_retained,      \* history: timestamps of the frames the generator yielded
  cap_accepted,      \* history: ids of the capture-stream appends accepted
  cap_errors,        \* history: number of ResponseErrors logged
  \* ---- the store, as far as capture writes it ----
  st_blobs,          \* keys of the image blobs: <<timestamp, kind>>
  st_hashes,         \* keys of the frame metadata hashes: timestamp
  st_stream,         \* capture stream: records [id, kinds], oldest first
  st_topid,          \* capture stream: last generated id
  st_trimmed,        \* history: ids trimmed from the capture stream
  \* ---- the store, as far as the recording coordinator uses it ----
  rs_queue,          \* list <camera>/record_queue: requested start times
  rs_until,          \* string <camera>/record_until (NoVal when absent)
  rs_recordings,     \* stream <camera>/recording: the records appended
  rs_capture,        \* stream <camera>/capture: timestamps of its records
  rs_blobs,          \* timestamps of the capture frames whose blob exists
  \* ---- record.record, called by the event handlers ----
  rq_pc,             \* "idle", or "push" between bus.set and bus.rpush
  rq_submitted,      \* history: <<start, end>> of every record() call
  rq_setlog,         \* history: where the coordinator was at each bus.set
  \* ---- record._record_on_demand_loop ----
  rec_pc,            \* "blpop", "getset", "announce", "while", "frames",
                     \* "recheck", "finish", "crashed"
  start_binstr,      \* the start value popped from the queue
  start_timestamp,
  end_timestamp,
  last_recorded_frame_timestamp,
  recording_file,    \* named after the start timestamp it is derived from
  video_writer,      \* None, or the index in rec_files of the open writer
  rec_scan,          \* records of the running slice_stream not yet visited
  rec_files,         \* history: one [file, frames] per VideoWriter opened
  rec_pops,          \* history: number of requests popped
  rec_merge,         \* history: start, end and last recorded frame
                     \* timestamp right after the latest merge
  rec_extended,      \* history: largest record-until value a re-check
                     \* adopted for the current request
  \* ---- gpio: one input pin registered by gpio.initialize ----
  gp_trigger,        \* pin_event.trigger_pinstate (PinState: 0 Low, 1 High)
  gp_debounce,       \* pin_event.debounce_ms
  gp_pin,            \* the level GPIO.input(channel) returns
  gp_now,            \* the edge detector's clock, in milliseconds
  gp_lastcall,       \* time of the last edge the detector let through; 0: none
  gp_pending,        \* callbacks the detector has scheduled and not yet run
  gp_edges,          \* history: times of the raw edges on the pin
  gp_calls,          \* history: handler invocations, [state, at]
  gp_records,        \* history: times (now) at which record_it was called
  \* ---- record.get_recordings over a recording stream ----
  hs_stream,         \* the recording stream: [finished, start, id] records
  hs_query,          \* the last query: its range and the records in it
  hs_result,         \* the list the last get_recordings call returned
  \* ---- util.stream_id applied to two timestamps ----
  sid_pads,          \* the platform's strftime zero-fills %Y to four digits
  sid_t1,            \* a timezone-aware timestamp [year, hour, micro, offset]
  sid_t2,
  sid_id1,           \* stream_id(sid_t1) once computed, << >> before
  sid_id2,
  \* ---- gpio.initialize and gpio.graceful_shutdown ----
  pn_inputs,         \* _PIN_EVENTS, in order: entry k is not None
  pn_actuator,       \* pintu.config.door_unlock_pin is not None
  pn_pc,             \* "actuator", "inputs", "signal", "running",
                     \* "shutdown", "cleanup", "off", "init_raised",
                     \* "shutdown_raised"
  pn_i,              \* the entry of _PIN_EVENTS the running loop is at
  pn_out,            \* the actuator pin is set up as an output
  pn_setup,          \* inputs set up with GPIO.setup
  pn_detect,         \* inputs whose edge detection is registered
  pn_failed,         \* history: what initialize failed at (<< >> if nothing)
  pn_attempted,      \* history: inputs whose removal shutdown attempted
  pn_warned,         \* history: inputs whose removal failure was logged
  pn_cleaned,        \* GPIO.cleanup() was called
  \* ---- gpio.unlock_door / lock_door and api.do_unlock_door ----
  lk_signal,         \* pintu.config.door_unlock_signal_pinstate (0 Low, 1 High)
  lk_level,          \* the level the actuator pin is driven to
  lk_before,         \* history: the level before the last call
  lk_calls,          \* history: the calls made, "unlock" or "lock", in order
  \* ---- detection.analyze_stream ----
  dt_pc,             \* "loop", or "crashed" after an uncaught exception
  dt_sampled,        \* history: the records sample_stream yielded, as
                     \* [id, present, detections]
  dt_submitted,      \* history: the XADDs queued on an executed pipeline
                     \* for the detection stream, as [id, fields]
  dt_top,            \* detection stream: id of its newest entry
  dt_errors,         \* history: number of ResponseErrors logged
  \* ---- imaging.Image.encode and Image.decode (a Frame round trip) ----
  cd_pc,             \* "frame", "encoded", "decoded"
  cd_frame,          \* the frame: [pixels, kind, timestamp, meta]; meta
                     \* stands for the free-form metadata by the length of
                     \* the JSON text of all metadata (len) and the place of
                     \* the first "@" in it (at, 0: none)
  cd_format,         \* the image format of encode ("jpg" by default)
  cd_bytes,          \* encode's result: [image, json, mlen, mver]
  cd_decoded,        \* decode's result: [status, frame]
  \* ---- imaging.FrameBuffer.extract_layers ----
  ly_pc,             \* "full" (a full buffer and a frame), "extracted"
  ly_buffer,         \* the buffered frames' data, oldest first; an image
                     \* is the sequence of its values (uint8), one per
                     \* pixel and channel
  ly_image,          \* image.data, the current frame
  ly_threshold,      \* diff_threshold
  ly_layers,         \* the layers returned: [background, foreground, mask]
  lk_req,            \* per unlock request: "idle" (not made yet), "sleep"
                     \* (suspended in asyncio.sleep), "returned"
  \* ---- the blob fetch of the recording and the detection loop ----
  ft_pc,             \* per loop: "loop" or "crashed"
  ft_blob,           \* the value bus.get returned last
  ft_log             \* per fetch: the loop and what became of the record

fbVars == <<fb_maxlen, fb_items, fb_shifted, fb_return, fb_before>>

ssVars == <<ss_stream, ss_topid, ss_last, ss_pc, ss_pending, ss_timeout,
            ss_now, ss_yielded, ss_lastpoll>>

genVars == <<gen_pos, gen_next, gen_grabs, gen_done, gen_strict>>

capVars == <<cap_pc, cap_buffer_size, cap_hasbuffer, cap_buffer,
             cap_next_buffer_timestamp, cap_retained, cap_accepted,
             cap_errors>>

stVars == <<st_blobs, st_hashes, st_stream, st_topid, st_trimmed>>

rsVars == <<rs_queue, rs_until, rs_recordings, rs_capture, rs_blobs>>

rqVars == <<rq_pc, rq_submitted, rq_setlog>>

recVars == <<rec_pc, start_binstr, start_timestamp, end_timestamp,
             last_recorded_frame_timestamp, recording_file, video_writer,
             rec_scan, rec_files, rec_pops, rec_merge, rec_extended>>

recordVars == <<rsVars, rqVars, recVars>>

gpVars == <<gp_trigger, gp_debounce, gp_pin, gp_now, gp_lastcall, gp_pending,
            gp_edges, gp_calls, gp_records>>

hsVars == <<hs_stream, hs_query, hs_result>>

sidVars == <<sid_pads, sid_t1, sid_t2, sid_id1, sid_id2>>

pnVars == <<pn_inputs, pn_actuator, pn_pc, pn_i, pn_out, pn_setup, pn_detect,
            pn_failed, pn_attempted, pn_warned, pn_cleaned>>

lkVars == <<lk_signal, lk_level, lk_before, lk_calls, lk_req>>

dtVars == <<dt_pc, dt_sampled, dt_submitted, dt_top, dt_errors>>

cdVars == <<cd_pc, cd_frame, cd_format, cd_bytes, cd_decoded>>

lyVars == <<ly_pc, ly_buffer, ly_image, ly_threshold, ly_layers>>

ftVars == <<ft_pc, ft_blob, ft_log>>

moreVars == <<pnVars, lkVars, dtVars, cdVars, lyVars, ftVars>>

restVars == <<gpVars, hsVars, sidVars, moreVars>>

\* Everything but the recording model's variables and the variables of one
\* of the later components.
older == <<fbVars, ssVars, genVars, capVars, stVars, recordVars, gpVars,
           hsVars, sidVars>>

pnOthers == <<older, lkVars, dtVars, cdVars, lyVars, ftVars>>

lkOthers == <<older, pnVars, dtVars, cdVars, lyVars, ftVars>>

dtOthers == <<older, pnVars, lkVars, cdVars, lyVars, ftVars>>

cdOthers == <<older, pnVars, lkVars, dtVars, lyVars, ftVars>>

lyOthers == <<older, pnVars, lkVars, dtVars, cdVars, ftVars>>

ftOthers == <<older, pnVars, lkVars, dtVars, cdVars, lyVars>>

vars == <<fbVars, ssVars, genVars, capVars, stVars, recordVars, restVars>>

(***************************************************************************)
(* Small helpers on sequences and numbers.                                 *)
(***************************************************************************)
Max(a, b) == IF a >= b THEN a ELSE b

Range(s) == {s[i] : i \in DOMAIN s}

LastN(s, n) == SubSeq(s, Len(s) - n + 1, Len(s))

(***************************************************************************)
(* imaging.FrameBuffer, a collections.deque with a maxlen.                 *)
(***************************************************************************)
\* FrameBuffer.full (property): len(self) >= self.maxlen
full_mutant(items, maxlen) == Len(items) > maxlen

full(items, maxlen) == Len(items) >= maxlen

\* deque.popleft()
popleft(items) == Tail(items)

\* deque.append(x) of a deque bounded by maxlen: once full, appending
\* discards an item from the opposite (left) end.
append(items, maxlen, x) ==
  IF maxlen = 0 THEN items
  ELSE IF Len(items) >= maxlen THEN Append(Tail(items), x)
  ELSE Append(items, x)

\* FrameBuffer.shift(item): the returned item and the new content.
shift_mutant(items, maxlen, item) ==
  [ret   |-> IF full(items, maxlen) THEN items[Len(items)] ELSE None,
   items |-> IF full(items, maxlen)
               THEN Append(SubSeq(items, 1, Len(items) - 1), item)
               ELSE Append(items, item)]

shift(items, maxlen, item) ==
  [ret   |-> IF full(items, maxlen) THEN Head(items) ELSE None,
   items |-> append(IF full(items, maxlen) THEN popleft(items) ELSE items,
                    maxlen, item)]

BufferInit ==
  /\ fb_maxlen \in 1..MaxCap
  /\ fb_items = << >>
  /\ fb_shifted = << >>
  /\ fb_return = None
  /\ fb_before = << >>

BufferOff ==
  /\ fb_maxlen = 1
  /\ fb_items = << >>
  /\ fb_shifted = << >>
  /\ fb_return = None
  /\ fb_before = << >>

Shift ==
  /\ Len(fb_shifted) < MaxShifts
  /\ \E item \in 1..NumFrameIds :
       LET r == shift(fb_items, fb_maxlen, item) IN
         /\ fb_items' = r.items
         /\ fb_return' = r.ret
         /\ fb_before' = fb_items
         /\ fb_shifted' = Append(fb_shifted, item)
  /\ UNCHANGED fb_maxlen
  /\ UNCHANGED <<ssVars, genVars, capVars, stVars, recordVars, restVars>>

BufferNext == Shift

(***************************************************************************)
(* util.sample_stream: a tailing cursor over one stream of the store, with *)
(* a producer appending to the stream (XADD with approximate MAXLEN).      *)
(***************************************************************************)
\* XADD with an explicit id: the store accepts it only above the stream's
\* last generated id.
xadd_accepts(topid, id) == id > topid

\* XADD ... MAXLEN ~ n: the entries left when `keep` entries survive the
\* approximate trimming (never fewer than maxlen, never more than all).
xadd_trimmed(stream, id, keep) == LastN(Append(stream, id), keep)

\* bus.xrevrange(stream_key, min=last_processed_id, count=1): the newest
\* entry, when its id is not below min (the mutant: the oldest such entry,
\* as xrange would return).
xrevrange_mutant(stream, min) ==
  IF stream # << >> /\ stream[Len(stream)] >= min
    THEN << stream[CHOOSE i \in DOMAIN stream :
                    /\ stream[i] >= min
                    /\ \A j \in DOMAIN stream : stream[j] >= min => i <= j] >>
    ELSE << >>

xrevrange(stream, min) ==
  IF stream # << >> /\ stream[Len(stream)] >= min
    THEN << stream[Len(stream)] >>
    ELSE << >>

\* `if id == last_processed_id`
is_last_mutant(id, last) == FALSE

is_last(id, last) == id = last

\* The two `continue` branches of the poll loop: nothing was returned, or
\* the last read record was returned again.
nothing_new(records, last) ==
  IF records = << >> THEN TRUE ELSE is_last(records[1], last)

\* `if timeout and now() - last_fetched_time > timeout`
timed_out_mutant(timeout, elapsed) == elapsed > timeout

timed_out(timeout, elapsed) == timeout # 0 /\ elapsed > timeout

SampleInit ==
  /\ ss_stream = << >>
  /\ ss_topid = 0
  /\ ss_last = 0
  /\ ss_pc = "poll"
  /\ ss_pending = None
  /\ ss_timeout \in 0..MaxTimeout
  /\ ss_now = 0
  /\ ss_yielded = << >>
  /\ ss_lastpoll = "none"

SampleOff ==
  /\ ss_stream = << >>
  /\ ss_topid = 0
  /\ ss_last = 0
  /\ ss_pc = "stopped"
  /\ ss_pending = None
  /\ ss_timeout = 0
  /\ ss_now = 0
  /\ ss_yielded = << >>
  /\ ss_lastpoll = "none"

\* The producer appends an entry; the store trims the oldest entries.
TailAppend ==
  /\ \E id \in 1..MaxId, keep \in 1..(Len(ss_stream) + 1) :
       /\ xadd_accepts(ss_topid, id)
       /\ keep >= IF Len(ss_stream) + 1 < TailMaxLen
                    THEN Len(ss_stream) + 1 ELSE TailMaxLen
       /\ ss_stream' = xadd_trimmed(ss_stream, id, keep)
       /\ ss_topid' = id
  /\ UNCHANGED <<ss_last, ss_pc, ss_pending, ss_timeout, ss_now, ss_yielded,
                 ss_lastpoll>>
  /\ UNCHANGED <<fbVars, genVars, capVars, stVars, recordVars, restVars>>

\* One poll that finds a new newest entry: the record is yielded.
SampleYield ==
  /\ ss_pc = "poll"
  /\ LET records == xrevrange(ss_stream, ss_last) IN
       /\ ~ nothing_new(records, ss_last)
       /\ ss_pending' = records[1]
       /\ ss_yielded' = Append(ss_yielded, records[1])
  /\ ss_pc' = "yielded"
  /\ ss_lastpoll' = "new"
  /\ UNCHANGED <<ss_stream, ss_topid, ss_last, ss_timeout, ss_now>>
  /\ UNCHANGED <<fbVars, genVars, capVars, stVars, recordVars, restVars>>

\* The consumer asks for the next record: the generator resumes after the
\* yield, records the id it delivered and restarts the idle clock
\* (last_fetched_time = now()).
SampleResume ==
  /\ ss_pc = "yielded"
  /\ ss_last' = ss_pending
  /\ ss_pc' = "poll"
  /\ ss_now' = 0
  /\ UNCHANGED <<ss_stream, ss_topid, ss_pending, ss_timeout, ss_yielded,
                 ss_lastpoll>>
  /\ UNCHANGED <<fbVars, genVars, capVars, stVars, recordVars, restVars>>

\* One poll that finds nothing, or the last delivered entry again, before
\* the timeout: sleep and retry.
SampleSleep ==
  /\ ss_pc = "poll"
  /\ LET records == xrevrange(ss_stream, ss_last) IN
       /\ nothing_new(records, ss_last)
       /\ ss_lastpoll' = IF records = << >> THEN "empty" ELSE "same"
  /\ ~ timed_out(ss_timeout, ss_now)
  /\ ss_now < MaxClock
  /\ ss_now' = ss_now + 1
  /\ UNCHANGED <<ss_stream, ss_topid, ss_last, ss_pc, ss_pending, ss_timeout,
                 ss_yielded>>
  /\ UNCHANGED <<fbVars, genVars, capVars, stVars, recordVars, restVars>>

\* One poll that finds nothing new after the timeout: the generator ends.
SampleStop ==
  /\ ss_pc = "poll"
  /\ LET records == xrevrange(ss_stream, ss_last) IN
       /\ nothing_new(records, ss_last)
       /\ ss_lastpoll' = IF records = << >> THEN "empty" ELSE "same"
  /\ timed_out(ss_timeout, ss_now)
  /\ ss_pc' = "stopped"
  /\ UNCHANGED <<ss_stream, ss_topid, ss_last, ss_pending, ss_timeout, ss_now,
                 ss_yielded>>
  /\ UNCHANGED <<fbVars, genVars, capVars, stVars, recordVars, restVars>>

SampleNext ==
  \/ TailAppend
  \/ SampleYield
  \/ SampleResume
  \/ SampleSleep
  \/ SampleStop

(***************************************************************************)
(* capture.capture, pulling frames from imaging.frames_from_video and      *)
(* publishing them to the store in one MULTI/EXEC pipeline per frame.      *)
(***************************************************************************)
\* Frame.timestamp = start_time + timedelta(milliseconds=frame_pos)
frame_timestamp(pos) == StartTime + pos

\* `if frame_pos_milliseconds < next_sample_pos_milliseconds: continue`
decimated(pos, next) == pos < next

\* `if buffer and ...`: a deque is true when it is not None and not empty.
truthy(hasbuffer, buffer) == hasbuffer /\ Len(buffer) > 0

\* `if buffer and frame.timestamp >= next_buffer_timestamp`
feeds_buffer(hasbuffer, buffer, ts, next_ts) ==
  truthy(hasbuffer, buffer) /\ ts >= next_ts

\* The image kinds whose blobs one loop iteration queues in the pipeline.
queued_kinds(layers) ==
  {"input"} \cup (IF layers THEN {"background", "foreground"} ELSE {})

\* pipe.execute(True) of [set..., hset, expire, xadd]: the store runs every
\* queued command of the transaction; a command it rejects (here the XADD,
\* for its id) does not undo the others.  `keep` is the number of entries
\* that survive the approximate trimming.
pipe_execute(blobs, hashes, stream, topid, trimmed, ts, kinds, keep) ==
  LET ok == xadd_accepts(topid, ts)
      rec == [id |-> ts, kinds |-> kinds]
      all == Append(stream, rec)
  IN [blobs   |-> blobs \cup {<<ts, k>> : k \in kinds},
      hashes  |-> hashes \cup {ts},
      stream  |-> IF ok THEN LastN(all, keep) ELSE stream,
      topid   |-> IF ok THEN ts ELSE topid,
      trimmed |-> IF ok
                    THEN trimmed \cup
                         {all[i].id : i \in 1..(Len(all) - keep)}
                    ELSE trimmed,
      error   |-> ~ ok]

\* `except redis.exceptions.ResponseError`: the exceptions of the store that
\* the handler around pipe.execute catches.
caught(exception) == exception = "ResponseError"

\* The numbers of entries approximate trimming to maxlen may leave.
trim_choices(len, maxlen) ==
  {k \in 1..len : k >= (IF len < maxlen THEN len ELSE maxlen)}

\* The source's positions have strictly increased up to this grab.
strictly(strict, grabs, delta) == strict /\ (grabs = 0 \/ delta > 0)

GenInit ==
  /\ gen_pos = 0
  /\ gen_next = 0
  /\ gen_grabs = 0
  /\ gen_done = FALSE
  /\ gen_strict = TRUE

\* The store as capture finds it: empty, or holding the newest frame of an
\* earlier run whose timestamps ran ahead (a video file is read faster than
\* real time, and its frames are stamped start_time + position).
StoreInit ==
  \E prior \in {0, PriorTop} :
    /\ st_blobs = IF prior = 0 THEN {} ELSE {<<prior, "input">>}
    /\ st_hashes = IF prior = 0 THEN {} ELSE {prior}
    /\ st_stream = IF prior = 0 THEN << >>
                   ELSE << [id |-> prior, kinds |-> {"input"}] >>
    /\ st_topid = prior
    /\ st_trimmed = {}

CaptureInit ==
  /\ GenInit
  /\ StoreInit
  /\ cap_pc = "start"
  /\ cap_buffer_size \in 0..MaxBuf
  /\ cap_hasbuffer = FALSE
  /\ cap_buffer = << >>
  /\ cap_next_buffer_timestamp = 0
  /\ cap_retained = << >>
  /\ cap_accepted = << >>
  /\ cap_errors = 0

CaptureOff ==
  /\ GenInit
  /\ st_blobs = {}
  /\ st_hashes = {}
  /\ st_stream = << >>
  /\ st_topid = 0
  /\ st_trimmed = {}
  /\ cap_pc = "done"
  /\ cap_buffer_size = 0
  /\ cap_hasbuffer = FALSE
  /\ cap_buffer = << >>
  /\ cap_next_buffer_timestamp = 0
  /\ cap_retained = << >>
  /\ cap_accepted = << >>
  /\ cap_errors = 0

\* capture.py:100-113: `frames` is created (a generator, not yet run) and
\* `buffer = FrameBuffer(frames, buffer_size) if buffer_size else None`
\* starts: deque(iterable, maxlen) iterates `frames`.
CapStart ==
  /\ cap_pc = "start"
  /\ cap_hasbuffer' = (cap_buffer_size # 0)
  /\ cap_pc' = IF cap_buffer_size # 0 THEN "construct" ELSE "loop"
  /\ cap_next_buffer_timestamp' = 0
  /\ UNCHANGED <<cap_buffer_size, cap_buffer, cap_retained, cap_accepted,
                 cap_errors>>
  /\ UNCHANGED <<fbVars, ssVars, genVars, stVars, recordVars, restVars>>

\* The generator grabs a frame too early for the sample rate and drops it.
GenSkip ==
  /\ cap_pc \in {"construct", "loop"}
  /\ ~ gen_done
  /\ gen_grabs < MaxGrabs
  /\ \E delta \in 0..MaxDelta :
       /\ decimated(gen_pos + delta, gen_next)
       /\ gen_pos' = gen_pos + delta
       /\ gen_strict' = strictly(gen_strict, gen_grabs, delta)
  /\ gen_grabs' = gen_grabs + 1
  /\ UNCHANGED <<gen_next, gen_done>>
  /\ UNCHANGED <<fbVars, ssVars, capVars, stVars, recordVars, restVars>>

\* The generator leaves its loop: cap.grab() or cap.retrieve() failed (end
\* of stream) or the duration was reached.
GenEnd ==
  /\ cap_pc \in {"construct", "loop"}
  /\ ~ gen_done
  /\ gen_done' = TRUE
  /\ UNCHANGED <<gen_pos, gen_next, gen_grabs, gen_strict>>
  /\ UNCHANGED <<fbVars, ssVars, capVars, stVars, recordVars, restVars>>

\* deque(frames, maxlen) takes the next frame the generator yields.
ConstructFeed ==
  /\ cap_pc = "construct"
  /\ ~ gen_done
  /\ gen_grabs < MaxGrabs
  /\ \E delta \in 0..MaxDelta :
       LET pos == gen_pos + delta
           ts  == frame_timestamp(pos)
       IN /\ ~ decimated(pos, gen_next)
          /\ gen_pos' = pos
          /\ gen_strict' = strictly(gen_strict, gen_grabs, delta)
          /\ cap_buffer' = append(cap_buffer, cap_buffer_size, ts)
          /\ cap_retained' = Append(cap_retained, ts)
  /\ gen_next' = gen_next + SampleInterval
  /\ gen_grabs' = gen_grabs + 1
  /\ UNCHANGED <<gen_done, cap_pc, cap_buffer_size, cap_hasbuffer,
                 cap_next_buffer_timestamp, cap_accepted, cap_errors>>
  /\ UNCHANGED <<fbVars, ssVars, stVars, recordVars, restVars>>

\* deque(frames, maxlen) returns once the generator is exhausted.
ConstructDone ==
  /\ cap_pc = "construct"
  /\ gen_done
  /\ cap_pc' = "loop"
  /\ UNCHANGED <<cap_buffer_size, cap_hasbuffer, cap_buffer,
                 cap_next_buffer_timestamp, cap_retained, cap_accepted,
                 cap_errors>>
  /\ UNCHANGED <<fbVars, ssVars, genVars, stVars, recordVars, restVars>>

\* One iteration of `for frame in frames:` (capture.py:115-194).
CaptureFrame ==
  /\ cap_pc = "loop"
  /\ ~ gen_done
  /\ gen_grabs < MaxGrabs
  /\ \E delta \in 0..MaxDelta :
       LET pos    == gen_pos + delta
           ts     == frame_timestamp(pos)
           feed   == feeds_buffer(cap_hasbuffer, cap_buffer, ts,
                                  cap_next_buffer_timestamp)
           buf    == IF feed THEN shift(cap_buffer, cap_buffer_size, ts).items
                     ELSE cap_buffer
           layers == feed /\ full(buf, cap_buffer_size)
       IN /\ ~ decimated(pos, gen_next)
          /\ gen_pos' = pos
          /\ gen_strict' = strictly(gen_strict, gen_grabs, delta)
          /\ cap_retained' = Append(cap_retained, ts)
          /\ cap_buffer' = buf
          /\ cap_next_buffer_timestamp' =
               IF feed THEN cap_next_buffer_timestamp + BufferInterval
               ELSE cap_next_buffer_timestamp
          /\ \E keep \in trim_choices(Len(st_stream) + 1, StreamLength) :
               LET r == pipe_execute(st_blobs, st_hashes, st_stream, st_topid,
                                     st_trimmed, ts, queued_kinds(layers),
                                     keep)
               IN /\ st_blobs' = r.blobs
                  /\ st_hashes' = r.hashes
                  /\ st_stream' = r.stream
                  /\ st_topid' = r.topid
                  /\ st_trimmed' = r.trimmed
                  /\ cap_accepted' = IF r.error THEN cap_accepted
                                     ELSE Append(cap_accepted, ts)
                  /\ cap_errors' = IF r.error THEN cap_errors + 1
                                   ELSE cap_errors
  /\ gen_next' = gen_next + SampleInterval
  /\ gen_grabs' = gen_grabs + 1
  /\ UNCHANGED <<gen_done, cap_pc, cap_buffer_size, cap_hasbuffer>>
  /\ UNCHANGED <<fbVars, ssVars, recordVars, restVars>>

\* One iteration of `for frame in frames:` while the store is unreachable:
\* pipe.execute(True) raises redis.exceptions.ConnectionError, which the
\* `except redis.exceptions.ResponseError` does not catch; nothing is stored
\* and the exception leaves capture.
CaptureUnreachable ==
  /\ cap_pc = "loop"
  /\ ~ gen_done
  /\ gen_grabs < MaxGrabs
  /\ \E delta \in 0..MaxDelta :
       LET pos == gen_pos + delta
           ts  == frame_timestamp(pos)
       IN /\ ~ decimated(pos, gen_next)
          /\ gen_pos' = pos
          /\ gen_strict' = strictly(gen_strict, gen_grabs, delta)
          /\ cap_retained' = Append(cap_retained, ts)
  /\ gen_next' = gen_next + SampleInterval
  /\ gen_grabs' = gen_grabs + 1
  /\ cap_pc' = IF caught("ConnectionError") THEN "loop" ELSE "crashed"
  /\ cap_errors' = IF caught("ConnectionError") THEN cap_errors + 1
                   ELSE cap_errors
  /\ UNCHANGED <<gen_done, cap_buffer_size, cap_hasbuffer, cap_buffer,
                 cap_next_buffer_timestamp, cap_accepted>>
  /\ UNCHANGED <<fbVars, ssVars, stVars, recordVars, restVars>>

\* `for frame in frames:` ends when the generator is exhausted.
CaptureDone ==
  /\ cap_pc = "loop"
  /\ gen_done
  /\ cap_pc' = "done"
  /\ UNCHANGED <<cap_buffer_size, cap_hasbuffer, cap_buffer,
                 cap_next_buffer_timestamp, cap_retained, cap_accepted,
                 cap_errors>>
  /\ UNCHANGED <<fbVars, ssVars, genVars, stVars, recordVars, restVars>>

CaptureNext ==
  \/ CapStart
  \/ GenSkip
  \/ GenEnd
  \/ ConstructFeed
  \/ ConstructDone
  \/ CaptureFrame
  \/ CaptureDone
  \/ CaptureUnreachable

(***************************************************************************)
(* record.record and record._record_on_demand_loop: the recording          *)
(* coordinator, the requests it serves, and the store between them.        *)
(***************************************************************************)
\* The requests explored: <<start_time, end_time>> of a record() call.
Requests ==
  { <<T0, T0 + 5>>, <<T0 + 2, T0 + 8>>, <<T0, T0 + 8>>,
    <<T0 + 6, T0 + 7>>, <<T0 + 2, T0 + 3>> }

\* The capture streams explored: a frame every second, no frame at all,
\* and two sparse streams.
AllFrames == T0..(T0 + Horizon)

FrameSets == { AllFrames, {}, {T0 + 1, T0 + 4}, {T0 + 6, T0 + 7} }

\* Blobs expire oldest first: those below the cutoff are gone.
Cutoffs == {0, T0 + 3}

RECURSIVE SortedSeq(_)
SortedSeq(S) ==
  IF S = {} THEN << >>
  ELSE LET m == CHOOSE x \in S : \A y \in S : x <= y
       IN << m >> \o SortedSeq(S \ {m})

\* util.slice_stream(bus, stream_key, start_time, end_time): the records
\* between the two timestamps, both included, oldest first.
slice_stream(stream, start_time, end_time) ==
  SortedSeq({t \in stream : start_time <= t /\ t <= end_time})

\* datetime.datetime.fromisoformat(value) succeeds
parseable(value) == value # NoVal

\* start_timestamp = max(start_timestamp, fromisoformat(start_timestamp_str))
merge_start(start, value) == Max(start, value)

\* end_timestamp = max(end_timestamp, fromisoformat(end_timestamp_str))
merge_end(end, value) == Max(end, value)

\* recording_file: recordings_dir / start_timestamp.strftime(...)
recording_file_of(start) == start

\* `if start_timestamp > last_recorded_frame_timestamp`
opens_entry(start, last) == start > last

\* `while last_recorded_frame_timestamp < end_timestamp`
loop_continues(last, end) == last < end

\* The re-check: end_timestamp = fromisoformat(end_timestamp_str), kept as
\* it was when the value does not parse.
recheck_end_mutant(end, value) == end

recheck_end(end, value) == IF parseable(value) THEN value ELSE end

\* start_time=max(start_timestamp, last_recorded_frame_timestamp): the
\* lower end of the range scan (record.py:178).
scan_from_mutant(start, last) == start

scan_from(start, last) == Max(start, last)

\* `if not video_writer:` before a frame is written: the writer is created
\* for the first frame of the request only.
opens_writer_mutant(writer) == TRUE

opens_writer(writer) == writer = None

\* bus.xadd(recordings_stream_key, fields, id): the store accepts an id
\* only above the id of the stream's newest entry.
recordings_top(recordings) ==
  IF recordings = << >> THEN 0 ELSE recordings[Len(recordings)].id

RecordInit ==
  /\ rs_queue = << >>
  /\ rs_until = NoVal
  /\ rs_recordings = << >>
  /\ \E capture \in FrameSets, cutoff \in Cutoffs :
       /\ rs_capture = capture
       /\ rs_blobs = {t \in capture : t >= cutoff}
  /\ rq_pc = "idle"
  /\ rq_submitted = << >>
  /\ rq_setlog = << >>
  /\ rec_pc = "blpop"
  /\ start_binstr = NoVal
  /\ start_timestamp = UTC_DATETIME_MIN
  /\ end_timestamp = UTC_DATETIME_MIN
  /\ last_recorded_frame_timestamp = UTC_DATETIME_MIN
  /\ recording_file = None
  /\ video_writer = None
  /\ rec_scan = << >>
  /\ rec_files = << >>
  /\ rec_pops = 0
  /\ rec_merge = [start |-> 0, end |-> 0, last |-> 0]
  /\ rec_extended = 0

RecordOff ==
  /\ rs_queue = << >>
  /\ rs_until = NoVal
  /\ rs_recordings = << >>
  /\ rs_capture = {}
  /\ rs_blobs = {}
  /\ rq_pc = "idle"
  /\ rq_submitted = << >>
  /\ rq_setlog = << >>
  /\ rec_pc = "crashed"
  /\ start_binstr = NoVal
  /\ start_timestamp = UTC_DATETIME_MIN
  /\ end_timestamp = UTC_DATETIME_MIN
  /\ last_recorded_frame_timestamp = UTC_DATETIME_MIN
  /\ recording_file = None
  /\ video_writer = None
  /\ rec_scan = << >>
  /\ rec_files = << >>
  /\ rec_pops = 0
  /\ rec_merge = [start |-> 0, end |-> 0, last |-> 0]
  /\ rec_extended = 0

others == <<fbVars, ssVars, genVars, capVars, stVars, restVars>>

\* record(): bus.set(end_time_key, end_time.isoformat())
RecordSet_mutant ==
  /\ rq_pc = "idle"
  /\ Len(rq_submitted) < NumReq
  /\ \E r \in Requests :
       /\ UNCHANGED rs_until
       /\ rq_submitted' = Append(rq_submitted, r)
  /\ rq_setlog' = Append(rq_setlog,
       [pc      |-> rec_pc,
        pops    |-> rec_pops,
        closing |-> ~ loop_continues(last_recorded_frame_timestamp,
                                     end_timestamp)])
  /\ rq_pc' = "push"
  /\ UNCHANGED <<rs_queue, rs_recordings, rs_capture, rs_blobs>>
  /\ UNCHANGED <<recVars, others>>

RecordSet ==
  /\ rq_pc = "idle"
  /\ Len(rq_submitted) < NumReq
  /\ \E r \in Requests :
       /\ rs_until' = r[2]
       /\ rq_submitted' = Append(rq_submitted, r)
  /\ rq_setlog' = Append(rq_setlog,
       [pc      |-> rec_pc,
        pops    |-> rec_pops,
        closing |-> ~ loop_continues(last_recorded_frame_timestamp,
                                     end_timestamp)])
  /\ rq_pc' = "push"
  /\ UNCHANGED <<rs_queue, rs_recordings, rs_capture, rs_blobs>>
  /\ UNCHANGED <<recVars, others>>

\* record(): bus.rpush(start_time_key, start_time.isoformat())
RecordPush ==
  /\ rq_pc = "push"
  /\ rs_queue' = Append(rs_queue, rq_submitted[Len(rq_submitted)][1])
  /\ rq_pc' = "idle"
  /\ UNCHANGED <<rs_until, rs_recordings, rs_capture, rs_blobs>>
  /\ UNCHANGED <<rq_submitted, rq_setlog, recVars, others>>

\* record.py:117: _, start_binstr = bus.blpop(start_time_key)
Blpop ==
  /\ rec_pc = "blpop"
  /\ rs_queue # << >>
  /\ start_binstr' = Head(rs_queue)
  /\ rs_queue' = Tail(rs_queue)
  /\ rec_pops' = rec_pops + 1
  /\ rec_pc' = "getset"
  /\ UNCHANGED <<rs_until, rs_recordings, rs_capture, rs_blobs>>
  /\ UNCHANGED <<start_timestamp, end_timestamp,
                 last_recorded_frame_timestamp, recording_file, video_writer,
                 rec_scan, rec_files, rec_merge, rec_extended>>
  /\ UNCHANGED <<rqVars, others>>

\* record.py:118-147: read and reset record-until, merge start and end by
\* maximum (the start is assigned before the end is parsed), skip the
\* request on a ValueError, else name the file and clear video_writer.
GetSet ==
  /\ rec_pc = "getset"
  /\ LET value == rs_until
         ok1   == parseable(start_binstr)
         ok2   == ok1 /\ parseable(value)
         start == IF ok1 THEN merge_start(start_timestamp, start_binstr)
                  ELSE start_timestamp
         end   == IF ok2 THEN merge_end(end_timestamp, value)
                  ELSE end_timestamp
     IN /\ start_timestamp' = start
        /\ end_timestamp' = end
        /\ IF ok2
             THEN /\ recording_file' = recording_file_of(start)
                  /\ video_writer' = None
                  /\ rec_merge' = [start |-> start, end |-> end,
                                   last  |-> last_recorded_frame_timestamp]
                  /\ rec_extended' = 0
                  /\ rec_pc' = "announce"
             ELSE /\ UNCHANGED <<recording_file, video_writer, rec_merge,
                                 rec_extended>>
                  /\ rec_pc' = "blpop"
  /\ rs_until' = UTC_DATETIME_MIN
  /\ UNCHANGED <<rs_queue, rs_recordings, rs_capture, rs_blobs>>
  /\ UNCHANGED <<start_binstr, last_recorded_frame_timestamp, rec_scan,
                 rec_files, rec_pops>>
  /\ UNCHANGED <<rqVars, others>>

\* record.py:149-164: the finished=0 record, when the merged start exceeds
\* the last recorded frame timestamp.  A rejected XADD raises a
\* ResponseError nothing catches: the loop ends.
Announce ==
  /\ rec_pc = "announce"
  /\ IF opens_entry(start_timestamp, last_recorded_frame_timestamp)
       THEN IF xadd_accepts(recordings_top(rs_recordings), start_timestamp)
              THEN /\ rs_recordings' = Append(rs_recordings,
                        [finished |-> 0,
                         start    |-> start_timestamp,
                         end      |-> end_timestamp,
                         file     |-> recording_file,
                         id       |-> start_timestamp])
                   /\ rec_pc' = "while"
              ELSE /\ rec_pc' = "crashed"
                   /\ UNCHANGED rs_recordings
       ELSE /\ rec_pc' = "while"
            /\ UNCHANGED rs_recordings
  /\ UNCHANGED <<rs_queue, rs_until, rs_capture, rs_blobs>>
  /\ UNCHANGED <<start_binstr, start_timestamp, end_timestamp,
                 last_recorded_frame_timestamp, recording_file, video_writer,
                 rec_scan, rec_files, rec_pops, rec_merge, rec_extended>>
  /\ UNCHANGED <<rqVars, others>>

\* record.py:167-180: the loop condition holds; slice_stream is called.
Scan ==
  /\ rec_pc = "while"
  /\ loop_continues(last_recorded_frame_timestamp, end_timestamp)
  /\ rec_scan' = slice_stream(rs_capture,
                              scan_from(start_timestamp,
                                        last_recorded_frame_timestamp),
                              end_timestamp)
  /\ rec_pc' = "frames"
  /\ UNCHANGED <<start_binstr, start_timestamp, end_timestamp,
                 last_recorded_frame_timestamp, recording_file, video_writer,
                 rec_files, rec_pops, rec_merge, rec_extended>>
  /\ UNCHANGED <<rsVars, rqVars, others>>

\* record.py:181-201: the blob of the next record is fetched and written;
\* the first frame written opens the video writer.
WriteFrame ==
  /\ rec_pc = "frames"
  /\ rec_scan # << >>
  /\ Head(rec_scan) \in rs_blobs
  /\ IF opens_writer(video_writer)
       THEN /\ rec_files' = Append(rec_files,
                 [file |-> recording_file, frames |-> << Head(rec_scan) >>])
            /\ video_writer' = Len(rec_files) + 1
       ELSE /\ rec_files' = [rec_files EXCEPT ![video_writer].frames =
                               Append(@, Head(rec_scan))]
            /\ UNCHANGED video_writer
  /\ last_recorded_frame_timestamp' = Head(rec_scan)
  /\ rec_scan' = Tail(rec_scan)
  /\ UNCHANGED <<rec_pc, start_binstr, start_timestamp, end_timestamp,
                 recording_file, rec_pops, rec_merge, rec_extended>>
  /\ UNCHANGED <<rsVars, rqVars, others>>

\* record.py:183-186: no data at the image key; the record is skipped.
SkipFrame ==
  /\ rec_pc = "frames"
  /\ rec_scan # << >>
  /\ Head(rec_scan) \notin rs_blobs
  /\ rec_scan' = Tail(rec_scan)
  /\ UNCHANGED <<rec_pc, start_binstr, start_timestamp, end_timestamp,
                 last_recorded_frame_timestamp, recording_file, video_writer,
                 rec_files, rec_pops, rec_merge, rec_extended>>
  /\ UNCHANGED <<rsVars, rqVars, others>>

\* record.py:203-223: the range scan is exhausted; record-until is read and
\* reset once more and becomes the end bound.
Recheck ==
  /\ rec_pc = "frames"
  /\ rec_scan = << >>
  /\ end_timestamp' = recheck_end(end_timestamp, rs_until)
  /\ rec_extended' = IF parseable(rs_until) /\ rs_until > end_timestamp
                       THEN Max(rec_extended, end_timestamp')
                       ELSE rec_extended
  /\ rs_until' = UTC_DATETIME_MIN
  /\ rec_pc' = "while"
  /\ UNCHANGED <<rs_queue, rs_recordings, rs_capture, rs_blobs>>
  /\ UNCHANGED <<start_binstr, start_timestamp,
                 last_recorded_frame_timestamp, recording_file, video_writer,
                 rec_scan, rec_files, rec_pops, rec_merge>>
  /\ UNCHANGED <<rqVars, others>>

\* record.py:167, 225-237: the loop condition fails; an open writer is
\* released and the finished=1 record appended.  A rejected XADD raises a
\* ResponseError nothing catches: the loop ends.
Finish ==
  /\ rec_pc = "while"
  /\ ~ loop_continues(last_recorded_frame_timestamp, end_timestamp)
  /\ IF video_writer # None
       THEN IF xadd_accepts(recordings_top(rs_recordings),
                            last_recorded_frame_timestamp)
              THEN /\ rs_recordings' = Append(rs_recordings,
                        [finished |-> 1,
                         start    |-> start_timestamp,
                         end      |-> last_recorded_frame_timestamp,
                         file     |-> recording_file,
                         id       |-> last_recorded_frame_timestamp])
                   /\ rec_pc' = "blpop"
              ELSE /\ rec_pc' = "crashed"
                   /\ UNCHANGED rs_recordings
       ELSE /\ rec_pc' = "blpop"
            /\ UNCHANGED rs_recordings
  /\ UNCHANGED <<rs_queue, rs_until, rs_capture, rs_blobs>>
  /\ UNCHANGED <<start_binstr, start_timestamp, end_timestamp,
                 last_recorded_frame_timestamp, recording_file, video_writer,
                 rec_scan, rec_files, rec_pops, rec_merge, rec_extended>>
  /\ UNCHANGED <<rqVars, others>>

RecordNext ==
  \/ RecordSet
  \/ RecordPush
  \/ Blpop
  \/ GetSet
  \/ Announce
  \/ Scan
  \/ WriteFrame
  \/ SkipFrame
  \/ Recheck
  \/ Finish

(***************************************************************************)
(* The specifications: one per component, the other components idle.       *)
(***************************************************************************)
(* gpio: an input pin with edge detection on both edges and a debounce     *)
(* window (GPIO.add_event_detect(pin, GPIO.BOTH, callback, bouncetime)).   *)
(* The detector lets an edge through when none was let through before or   *)
(* more than bouncetime has passed since the last one it let through, and  *)
(* then runs the callback, which reads the pin.                            *)
(***************************************************************************)
\* Time between two raw edges on the pin, in milliseconds.
EdgeGaps == {500, 1500, 2000, 2500}

\* bouncetime=pin_event.debounce_ms: the detector's test for an edge.
debounce_accepts_mutant(now, lastcall, bouncetime) == TRUE

debounce_accepts(now, lastcall, bouncetime) ==
  lastcall = 0 \/ now - lastcall > bouncetime

\* PinState.invert: the level of the pin at rest (pull_up_down).
invert(pinstate) == IF pinstate = 1 THEN 0 ELSE 1

\* wrapper: bool(pin_event.trigger_pinstate) == bool(GPIO.input(channel))
handler_state(trigger_pinstate, input) == trigger_pinstate = input

\* on_doorbell_event and its siblings: record_it only when state is False.
handler_records(state) == ~ state

GpioInit ==
  /\ gp_trigger \in {0, 1}
  /\ gp_debounce \in {DOORBELL_DEBOUNCE_MS, DOOR_SENSOR_DEBOUNCE_MS}
  /\ gp_pin = invert(gp_trigger)
  /\ gp_now = 0
  /\ gp_lastcall = 0
  /\ gp_pending = 0
  /\ gp_edges = << >>
  /\ gp_calls = << >>
  /\ gp_records = << >>

GpioOff ==
  /\ gp_trigger = 0
  /\ gp_debounce = 0
  /\ gp_pin = 0
  /\ gp_now = 0
  /\ gp_lastcall = 0
  /\ gp_pending = 0
  /\ gp_edges = << >>
  /\ gp_calls = << >>
  /\ gp_records = << >>

\* A raw edge: the pin changes level, the detector debounces it.
GpioEdge ==
  /\ Len(gp_edges) < MaxEdges
  /\ \E gap \in EdgeGaps :
       /\ gp_now' = gp_now + gap
       /\ gp_edges' = Append(gp_edges, gp_now + gap)
       /\ IF debounce_accepts(gp_now + gap, gp_lastcall, gp_debounce)
            THEN /\ gp_lastcall' = gp_now + gap
                 /\ gp_pending' = gp_pending + 1
            ELSE UNCHANGED <<gp_lastcall, gp_pending>>
  /\ gp_pin' = invert(gp_pin)
  /\ UNCHANGED <<gp_trigger, gp_debounce, gp_calls, gp_records>>
  /\ UNCHANGED <<fbVars, ssVars, genVars, capVars, stVars, recordVars, hsVars,
                 sidVars, moreVars>>

\* The detector's thread runs a scheduled callback: wrapper reads the pin
\* and calls the handler, which calls record_it on a False state.
GpioCallback ==
  /\ gp_pending > 0
  /\ gp_pending' = gp_pending - 1
  /\ LET state == handler_state(gp_trigger, gp_pin) IN
       /\ gp_calls' = Append(gp_calls, [state |-> state, at |-> gp_now])
       /\ gp_records' = IF handler_records(state)
                          THEN Append(gp_records, gp_now)
                          ELSE gp_records
  /\ UNCHANGED <<gp_trigger, gp_debounce, gp_pin, gp_now, gp_lastcall,
                 gp_edges>>
  /\ UNCHANGED <<fbVars, ssVars, genVars, capVars, stVars, recordVars, hsVars,
                 sidVars, moreVars>>

GpioNext ==
  \/ GpioEdge
  \/ GpioCallback

(***************************************************************************)
(* record.get_recordings: the history of recordings read from the          *)
(* recording stream, to which the coordinator appends a finished=0 record  *)
(* under the id of its start and a finished=1 record under the id of its   *)
(* last frame.                                                             *)
(***************************************************************************)
\* util.slice_stream on a stream of records: those with an id in the range,
\* both ends included, oldest first.
RECURSIVE slice_records(_, _, _)
slice_records(stream, start_time, end_time) ==
  IF stream = << >> THEN << >>
  ELSE IF start_time <= Head(stream).id /\ Head(stream).id <= end_time
         THEN << Head(stream) >>
                \o slice_records(Tail(stream), start_time, end_time)
         ELSE slice_records(Tail(stream), start_time, end_time)

\* One turn of the for loop of get_recordings.
collect_mutant(recordings, recording) == Append(recordings, recording)

collect(recordings, recording) ==
  IF recordings = << >> \/ recording.finished = 0
    THEN Append(recordings, recording)
    ELSE [recordings EXCEPT ![Len(recordings)] = recording]

RECURSIVE collect_all(_, _)
collect_all(recordings, rest) ==
  IF rest = << >> THEN recordings
  ELSE collect_all(collect(recordings, Head(rest)), Tail(rest))

get_recordings(stream, start_time, end_time) ==
  collect_all(<< >>, slice_records(stream, start_time, end_time))

HistoryInit ==
  /\ hs_stream = << >>
  /\ hs_query = [start_time |-> 0, end_time |-> 0, seen |-> << >>]
  /\ hs_result = << >>

HistoryOff ==
  /\ hs_stream = << >>
  /\ hs_query = [start_time |-> 0, end_time |-> 0, seen |-> << >>]
  /\ hs_result = << >>

\* The coordinator appends a record: bus.xadd(recordings_stream_key, ...,
\* id=stream_id(start)) with finished=0, id=stream_id(last frame) with
\* finished=1; the store accepts an id above the stream's newest.
HistoryAppend ==
  /\ Len(hs_stream) < MaxRecs
  /\ \E finished \in {0, 1}, start \in 1..MaxStart, id \in 1..(MaxStart + 1) :
       /\ finished = 0 => id = start
       /\ finished = 1 => id >= start
       /\ xadd_accepts(recordings_top(hs_stream), id)
       /\ hs_stream' =
            Append(hs_stream, [finished |-> finished, start |-> start,
                               id |-> id])
  /\ UNCHANGED <<hs_query, hs_result>>
  /\ UNCHANGED <<fbVars, ssVars, genVars, capVars, stVars, recordVars, gpVars,
                 sidVars, moreVars>>

\* A reader asks for the recordings of a time range.
GetRecordings ==
  /\ \E start_time \in 0..MaxStart, end_time \in 1..(MaxStart + 1) :
       /\ start_time <= end_time
       /\ hs_query' = [start_time |-> start_time, end_time |-> end_time,
                        seen |-> slice_records(hs_stream, start_time,
                                               end_time)]
       /\ hs_result' = get_recordings(hs_stream, start_time, end_time)
  /\ UNCHANGED hs_stream
  /\ UNCHANGED <<fbVars, ssVars, genVars, capVars, stVars, recordVars, gpVars,
                 sidVars, moreVars>>

HistoryNext ==
  \/ HistoryAppend
  \/ GetRecordings

(***************************************************************************)
(* util.stream_id: a timezone-aware timestamp is converted to UTC and      *)
(* formatted with default.STREAM_ID_TIMESTAMP_FORMAT, "%Y%m%d%H%M%S-%f".   *)
(* A timestamp is [year, hour, micro, offset]: `hour` (the hour within the *)
(* year) stands for the fixed-width fields %m%d%H%M%S, `micro` for %f, and *)
(* `offset` is the UTC offset of its time zone, in hours.  A string is the *)
(* sequence of its character codes.                                        *)
(***************************************************************************)
Years == {999, 1000, 2026}
Hours == {0, 9, 10, HoursPerYear - 1}
Micros == {0, 9, 10}
Offsets == {-1, 0, 1}

Timestamps ==
  [year : Years, hour : Hours, micro : Micros, offset : Offsets]

\* The decimal digits of n, as characters ("0" is 48).
RECURSIVE Digits(_)
Digits(n) ==
  IF n < 10 THEN << 48 + n >> ELSE Digits(n \div 10) \o << 48 + (n % 10) >>

\* A field that strftime zero-fills to `width` characters (%m, %H, %f, ...).
zero_filled(n, width) ==
  LET d == Digits(n)
  IN IF Len(d) >= width THEN d
     ELSE [i \in 1..(width - Len(d)) |-> 48] \o d

\* %Y: four digits zero-filled, or as many digits as the year has where the
\* platform's strftime does not fill it.
format_year(year, pads) == IF pads THEN zero_filled(year, 4) ELSE Digits(year)

\* timestamp.astimezone(datetime.timezone.utc)
astimezone_utc_mutant(ts) == ts

astimezone_utc(ts) ==
  LET h == ts.hour - ts.offset IN
    IF h < 0
      THEN [year |-> ts.year - 1, hour |-> h + HoursPerYear,
            micro |-> ts.micro, offset |-> 0]
    ELSE IF h >= HoursPerYear
      THEN [year |-> ts.year + 1, hour |-> h - HoursPerYear,
            micro |-> ts.micro, offset |-> 0]
    ELSE [year |-> ts.year, hour |-> h, micro |-> ts.micro, offset |-> 0]

\* timestamp.strftime(STREAM_ID_TIMESTAMP_FORMAT); "-" is 45
strftime(ts, pads) ==
  format_year(ts.year, pads) \o zero_filled(ts.hour, 2) \o << 45 >>
    \o zero_filled(ts.micro, 2)

stream_id(timestamp, pads) ==
  strftime(IF timestamp.offset # 0 THEN astimezone_utc(timestamp)
           ELSE timestamp, pads)

StreamIdInit ==
  /\ sid_pads \in BOOLEAN
  /\ sid_t1 \in Timestamps
  /\ sid_t2 \in Timestamps
  /\ sid_id1 = << >>
  /\ sid_id2 = << >>

StreamIdOff ==
  /\ sid_pads = TRUE
  /\ sid_t1 = [year |-> 0, hour |-> 0, micro |-> 0, offset |-> 0]
  /\ sid_t2 = [year |-> 0, hour |-> 0, micro |-> 0, offset |-> 0]
  /\ sid_id1 = << >>
  /\ sid_id2 = << >>

StreamIdFirst ==
  /\ sid_id1 = << >>
  /\ sid_id1' = stream_id(sid_t1, sid_pads)
  /\ UNCHANGED <<sid_pads, sid_t1, sid_t2, sid_id2>>
  /\ UNCHANGED <<fbVars, ssVars, genVars, capVars, stVars, recordVars, gpVars,
                 hsVars, moreVars>>

StreamIdSecond ==
  /\ sid_id2 = << >>
  /\ sid_id2' = stream_id(sid_t2, sid_pads)
  /\ UNCHANGED <<sid_pads, sid_t1, sid_t2, sid_id1>>
  /\ UNCHANGED <<fbVars, ssVars, genVars, capVars, stVars, recordVars, gpVars,
                 hsVars, moreVars>>

StreamIdNext ==
  \/ StreamIdFirst
  \/ StreamIdSecond

(***************************************************************************)
(* gpio.initialize and gpio.graceful_shutdown: the pins' life cycle.  Each *)
(* call into the GPIO library returns or raises; an exception the calling  *)
(* function does not catch ends that function.                             *)
(***************************************************************************)
\* What a call into the GPIO library does: "ok", or the exception raised.
GpioOutcomes == {"ok", "ValueError", "TypeError"}

\* initialize has no try statement.
initialize_catches == {}

\* graceful_shutdown: except (ValueError, TypeError)
shutdown_catches == {"ValueError", "TypeError"}

\* The number initialize's failure is recorded under for the actuator pin.
ActuatorPin == NumInputs + 1

\* `pin_event.pin_number` where pin_event is None.
attribute_of(configured) == IF configured THEN "ok" ELSE "AttributeError"

PinsInit ==
  /\ pn_inputs \in [1..NumInputs -> BOOLEAN]
  /\ pn_actuator \in BOOLEAN
  /\ pn_pc = "actuator"
  /\ pn_i = 1
  /\ pn_out = FALSE
  /\ pn_setup = {}
  /\ pn_detect = {}
  /\ pn_failed = 0
  /\ pn_attempted = {}
  /\ pn_warned = {}
  /\ pn_cleaned = FALSE

PinsOff ==
  /\ pn_inputs = [k \in 1..NumInputs |-> FALSE]
  /\ pn_actuator = FALSE
  /\ pn_pc = "off"
  /\ pn_i = 1
  /\ pn_out = FALSE
  /\ pn_setup = {}
  /\ pn_detect = {}
  /\ pn_failed = 0
  /\ pn_attempted = {}
  /\ pn_warned = {}
  /\ pn_cleaned = FALSE

\* gpio.py:194-203: setmode, then the actuator pin as an output.
InitActuator ==
  /\ pn_pc = "actuator"
  /\ IF pn_actuator
       THEN \E outcome \in GpioOutcomes :
              IF outcome = "ok"
                THEN /\ pn_out' = TRUE
                     /\ pn_pc' = "inputs"
                     /\ UNCHANGED pn_failed
                ELSE /\ pn_failed' = ActuatorPin
                     /\ pn_pc' = IF outcome \in initialize_catches
                                   THEN "inputs" ELSE "init_raised"
                     /\ UNCHANGED pn_out
       ELSE /\ pn_pc' = "inputs"
            /\ UNCHANGED <<pn_out, pn_failed>>
  /\ UNCHANGED <<pn_inputs, pn_actuator, pn_i, pn_setup, pn_detect,
                 pn_attempted, pn_warned, pn_cleaned>>
  /\ UNCHANGED pnOthers

\* gpio.py:205-222: one iteration of the loop over _PIN_EVENTS: GPIO.setup
\* as an input, then GPIO.add_event_detect.
InitInput ==
  /\ pn_pc = "inputs"
  /\ pn_i <= NumInputs
  /\ IF pn_inputs[pn_i]
       THEN \E setup \in GpioOutcomes, detect \in GpioOutcomes :
              /\ pn_setup' = IF setup = "ok" THEN pn_setup \cup {pn_i}
                             ELSE pn_setup
              /\ pn_detect' = IF setup = "ok" /\ detect = "ok"
                                THEN pn_detect \cup {pn_i} ELSE pn_detect
              /\ setup # "ok" => detect = "ok"
              /\ IF setup = "ok" /\ detect = "ok"
                   THEN UNCHANGED <<pn_failed, pn_pc>>
                   ELSE /\ pn_failed' = pn_i
                        /\ pn_pc' = IF {setup, detect} \ {"ok"}
                                        \subseteq initialize_catches
                                      THEN "inputs" ELSE "init_raised"
       ELSE UNCHANGED <<pn_setup, pn_detect, pn_failed, pn_pc>>
  /\ pn_i' = pn_i + 1
  /\ UNCHANGED <<pn_inputs, pn_actuator, pn_out, pn_attempted, pn_warned,
                 pn_cleaned>>
  /\ UNCHANGED pnOthers

\* gpio.py:223: the loop is over; the SIGINT handler is installed and
\* initialize returns.
InitSignal ==
  /\ pn_pc = "inputs"
  /\ pn_i > NumInputs
  /\ pn_pc' = "running"
  /\ pn_i' = 1
  /\ UNCHANGED <<pn_inputs, pn_actuator, pn_out, pn_setup, pn_detect,
                 pn_failed, pn_attempted, pn_warned, pn_cleaned>>
  /\ UNCHANGED pnOthers

\* gpio.py:228-240: one iteration of graceful_shutdown's loop over
\* _PIN_EVENTS.  The try statement is entered for every entry; evaluating
\* pin_event.pin_number on an entry that is None raises AttributeError,
\* in the try body and again in the handler's message.
ShutdownRemove ==
  /\ pn_pc \in {"running", "shutdown"}
  /\ pn_i <= NumInputs
  /\ IF attribute_of(pn_inputs[pn_i]) = "ok"
       THEN \E outcome \in GpioOutcomes :
              /\ pn_attempted' = pn_attempted \cup {pn_i}
              /\ pn_detect' = IF outcome = "ok" THEN pn_detect \ {pn_i}
                              ELSE pn_detect
              /\ pn_warned' = IF outcome # "ok" /\ outcome \in shutdown_catches
                                THEN pn_warned \cup {pn_i} ELSE pn_warned
              /\ pn_pc' = IF outcome = "ok" \/ outcome \in shutdown_catches
                            THEN "shutdown" ELSE "shutdown_raised"
       ELSE /\ pn_pc' = IF attribute_of(pn_inputs[pn_i]) \in shutdown_catches
                          THEN "shutdown" ELSE "shutdown_raised"
            /\ UNCHANGED <<pn_attempted, pn_detect, pn_warned>>
  /\ pn_i' = pn_i + 1
  /\ UNCHANGED <<pn_inputs, pn_actuator, pn_out, pn_setup, pn_failed,
                 pn_cleaned>>
  /\ UNCHANGED pnOthers

\* gpio.py:242: GPIO.cleanup() after the loop.
ShutdownCleanup ==
  /\ pn_pc = "shutdown"
  /\ pn_i > NumInputs
  /\ pn_cleaned' = TRUE
  /\ pn_out' = FALSE
  /\ pn_setup' = {}
  /\ pn_detect' = {}
  /\ pn_pc' = "off"
  /\ UNCHANGED <<pn_inputs, pn_actuator, pn_i, pn_failed, pn_attempted,
                 pn_warned>>
  /\ UNCHANGED pnOthers

PinsNext ==
  \/ InitActuator
  \/ InitInput
  \/ InitSignal
  \/ ShutdownRemove
  \/ ShutdownCleanup

(***************************************************************************)
(* gpio.unlock_door and gpio.lock_door drive the actuator pin;             *)
(* api.do_unlock_door calls unlock_door, awaits asyncio.sleep and calls    *)
(* lock_door.  Requests are coroutines on one event loop: a request runs   *)
(* without interruption between two awaits that suspend it.                *)
(***************************************************************************)
\* unlock_door: GPIO.output(door_unlock_pin, unlock_signal)
unlock_door_mutant(unlock_signal) == invert(unlock_signal)

unlock_door(unlock_signal) == unlock_signal

\* lock_door: GPIO.output(door_unlock_pin, unlock_signal.invert)
lock_door_mutant(unlock_signal) == unlock_signal

lock_door(unlock_signal) == invert(unlock_signal)

\* GPIO.setup(door_unlock_pin, GPIO.OUT) names no initial level: the pin
\* keeps the level it had.
ActuatorInit ==
  /\ lk_signal \in {0, 1}
  /\ lk_level \in {0, 1}
  /\ lk_before = lk_level
  /\ lk_calls = << >>
  /\ lk_req = [r \in 1..NumUnlock |-> "idle"]

ActuatorOff ==
  /\ lk_signal = 0
  /\ lk_level = 0
  /\ lk_before = 0
  /\ lk_calls = << >>
  /\ lk_req = [r \in 1..NumUnlock |-> "returned"]

\* A call of gpio.unlock_door().
UnlockDoor ==
  /\ Len(lk_calls) < MaxCalls
  /\ lk_level' = unlock_door(lk_signal)
  /\ lk_before' = lk_level
  /\ lk_calls' = Append(lk_calls, "unlock")
  /\ UNCHANGED <<lk_signal, lk_req>>
  /\ UNCHANGED lkOthers

\* A call of gpio.lock_door().
LockDoor ==
  /\ Len(lk_calls) < MaxCalls
  /\ lk_level' = lock_door(lk_signal)
  /\ lk_before' = lk_level
  /\ lk_calls' = Append(lk_calls, "lock")
  /\ UNCHANGED <<lk_signal, lk_req>>
  /\ UNCHANGED lkOthers

ActuatorNext ==
  \/ UnlockDoor
  \/ LockDoor

\* api.py:181-185: a request arrives; do_unlock_door calls unlock_door and
\* is suspended in asyncio.sleep.
DoUnlockStart ==
  \E r \in 1..NumUnlock :
    /\ lk_req[r] = "idle"
    /\ lk_level' = unlock_door(lk_signal)
    /\ lk_before' = lk_level
    /\ lk_calls' = Append(lk_calls, "unlock")
    /\ lk_req' = [lk_req EXCEPT ![r] = "sleep"]
    /\ UNCHANGED lk_signal
    /\ UNCHANGED lkOthers

\* api.py:186-187: the sleep is over; do_unlock_door calls lock_door, reads
\* the door state and returns.
DoUnlockRelock ==
  \E r \in 1..NumUnlock :
    /\ lk_req[r] = "sleep"
    /\ lk_level' = lock_door(lk_signal)
    /\ lk_before' = lk_level
    /\ lk_calls' = Append(lk_calls, "lock")
    /\ lk_req' = [lk_req EXCEPT ![r] = "returned"]
    /\ UNCHANGED lk_signal
    /\ UNCHANGED lkOthers

UnlockNext ==
  \/ DoUnlockStart
  \/ DoUnlockRelock

(***************************************************************************)
(* detection.analyze_stream: one iteration per record that sample_stream   *)
(* yields from the capture stream.  A field map is a function from field   *)
(* names to values; a frame's key and timestamp are its stream id.         *)
(***************************************************************************)
\* The fields of a capture record (capture.py:160-177), with the layers'
\* pointers when the frame had layers.
capture_record(id, layers) ==
  [k \in {"timestamp", "width", "height", "key", "input"}
         \cup (IF layers THEN {"background", "foreground"} ELSE {}) |-> id]

\* `if not image_bytes`: bus.get returned None (or an empty value).
no_data(present) == ~ present

\* detections_data before the update: "detections", one field str(det_ix)
\* per detection, and "count" = len(detections).
detections_data(frame_key, detections) ==
  [k \in {"detections", "count"}
         \cup {ToString(ix) : ix \in 0..(Len(detections) - 1)} |->
     IF k = "count" THEN Len(detections) ELSE frame_key]

\* dict.update: the fields of `record` are added to `data`, replacing the
\* fields of `data` that have the same name.
update_mutant(data, record) == record

update(data, record) ==
  [k \in DOMAIN data \cup DOMAIN record |->
     IF k \in DOMAIN record THEN record[k] ELSE data[k]]

\* What pipe.execute(True) does with the queued commands: they are applied
\* ("ok"), the XADD is refused (ResponseError), or the store is unreachable.
execute_outcome(topid, id, reachable) ==
  IF ~ reachable THEN "ConnectionError"
  ELSE IF xadd_accepts(topid, id) THEN "ok" ELSE "ResponseError"

DetectInit ==
  /\ dt_pc = "loop"
  /\ dt_sampled = << >>
  /\ dt_submitted = << >>
  /\ dt_top \in {0, MaxSampled}
  /\ dt_errors = 0

DetectOff ==
  /\ dt_pc = "crashed"
  /\ dt_sampled = << >>
  /\ dt_submitted = << >>
  /\ dt_top = 0
  /\ dt_errors = 0

\* detection.py:398-451: the body of `for record in sample_stream(...)`.
\* sample_stream yields records with increasing ids, each at most once.
AnalyzeRecord ==
  /\ dt_pc = "loop"
  /\ Len(dt_sampled) < MaxSampled
  /\ \E id \in 1..(2 * MaxSampled), present \in BOOLEAN, layers \in BOOLEAN,
        n \in 0..MaxDet, reachable \in BOOLEAN :
       /\ id <= 2 + (IF dt_sampled = << >> THEN 0
                     ELSE dt_sampled[Len(dt_sampled)].id)
       /\ LET detections == [ix \in 1..n |-> ix]
              record == capture_record(id, layers)
              outcome == execute_outcome(dt_top, id, reachable)
          IN /\ \A i \in DOMAIN dt_sampled : dt_sampled[i].id < id
             /\ dt_sampled' = Append(dt_sampled,
                  [id |-> id, present |-> present,
                   detections |-> IF present THEN n ELSE 0])
             /\ ~ present => n = 0 /\ reachable
             /\ IF no_data(present)
                  THEN UNCHANGED <<dt_submitted, dt_top, dt_errors, dt_pc>>
                  ELSE /\ dt_submitted' = Append(dt_submitted,
                            [id |-> id,
                             fields |-> update(detections_data(id, detections),
                                               record)])
                       /\ dt_top' = IF outcome = "ok" THEN id ELSE dt_top
                       /\ dt_errors' = IF caught(outcome) THEN dt_errors + 1
                                       ELSE dt_errors
                       /\ dt_pc' = IF outcome = "ok" \/ caught(outcome)
                                     THEN "loop" ELSE "crashed"
  /\ UNCHANGED dtOthers

DetectNext == AnalyzeRecord

(***************************************************************************)
(* imaging.Image.encode and Image.decode.  The encoded bytes are the image *)
(* in the chosen format followed by the trailer                            *)
(*   <metadata JSON> "@" <mlen, five digits> "#" <mver, three digits>      *)
(* where mlen = len(JSON) + 10.  A text is kept by its length and the      *)
(* place of its first "@"; the decoder's slices are computed on lengths.   *)
(***************************************************************************)
\* The lengths of the metadata JSON text explored: short, the longest whose
\* mlen has five digits, and two whose mlen has six.
JsonLens == {30, 99989, 99990, 100000}

Kinds == {"input", "foreground"}

NoFrame == [pixels |-> << >>, kind |-> "input", timestamp |-> 0,
            meta |-> [len |-> 0, at |-> 0]]

\* cv2.imencode: ".jpg" is lossy (pixel values are quantised), ".png" keeps
\* every pixel value.
imencode(format, pixels) ==
  [i \in DOMAIN pixels |->
     IF format = "jpg" THEN (pixels[i] \div JpegStep) * JpegStep
     ELSE pixels[i]]

\* json.dumps(self.metadata, separators=(",", ":")): "@" is not escaped.
json_dumps(frame) ==
  [len |-> frame.meta.len, at |-> frame.meta.at,
   value |-> [kind |-> frame.kind, timestamp |-> frame.timestamp,
              meta |-> frame.meta]]

\* Image.encode (imaging.py:478-502)
encode(frame, format) ==
  [image |-> imencode(format, frame.pixels),
   json  |-> json_dumps(frame),
   mlen  |-> zero_filled(frame.meta.len + TrailerFixed, MlenWidth),
   mver  |-> zero_filled(1, 3)]

\* int(text) of a text of decimal digits
RECURSIVE parse_int(_)
parse_int(d) ==
  IF d = << >> THEN 0
  ELSE 10 * parse_int(SubSeq(d, 1, Len(d) - 1)) + (d[Len(d)] - 48)

\* Length of the trailer that follows the image.
trailer_len(bytes) == bytes.json.len + 1 + Len(bytes.mlen) + 1 + Len(bytes.mver)

\* metadata_len = int(image_bytes[-9:-4]): the five characters before "#001"
metadata_len(bytes) == parse_int(LastN(bytes.mlen, MlenWidth))

\* image_bytes[-metadata_len:].decode().split("@")[0] passed to json.loads:
\* it is the whole JSON text when the slice starts where the text starts
\* and the text holds no "@"; any other slice is not a JSON text and
\* json.loads (or decode, for the slice [-0:], the whole value) raises a
\* ValueError.
metadata_parses(bytes) ==
  /\ metadata_len(bytes) # 0
  /\ trailer_len(bytes) - metadata_len(bytes) = 0
  /\ bytes.json.at = 0

\* Image.decode (imaging.py:504-545) for cls = Frame
decode(bytes) ==
  IF bytes.mver = zero_filled(1, 3)
    THEN IF metadata_parses(bytes)
           THEN [status |-> "ok",
                 frame  |-> [pixels    |-> bytes.image,
                             kind      |-> bytes.json.value.kind,
                             timestamp |-> bytes.json.value.timestamp,
                             meta      |-> bytes.json.value.meta]]
           ELSE [status |-> "ValueError", frame |-> NoFrame]
    ELSE [status |-> "ok",
          frame  |-> [pixels |-> bytes.image, kind |-> "input",
                      timestamp |-> 0, meta |-> [len |-> 0, at |-> 0]]]

CodecInit ==
  /\ cd_pc = "frame"
  /\ cd_frame \in [pixels : [1..NumPixels -> 0..MaxPixel], kind : Kinds,
                   timestamp : {1, 2},
                   meta : [len : JsonLens, at : {0, 20}]]
  /\ cd_format \in {"jpg", "png"}
  /\ cd_bytes = encode(NoFrame, "png")
  /\ cd_decoded = [status |-> "none", frame |-> NoFrame]

CodecOff ==
  /\ cd_pc = "decoded"
  /\ cd_frame = NoFrame
  /\ cd_format = "jpg"
  /\ cd_bytes = encode(NoFrame, "png")
  /\ cd_decoded = [status |-> "none", frame |-> NoFrame]

\* frame.encode(format), or bytes(frame) for the default format
Encode ==
  /\ cd_pc = "frame"
  /\ cd_bytes' = encode(cd_frame, cd_format)
  /\ cd_pc' = "encoded"
  /\ UNCHANGED <<cd_frame, cd_format, cd_decoded>>
  /\ UNCHANGED cdOthers

\* Frame.decode(image_bytes)
Decode ==
  /\ cd_pc = "encoded"
  /\ cd_decoded' = decode(cd_bytes)
  /\ cd_pc' = "decoded"
  /\ UNCHANGED <<cd_frame, cd_format, cd_bytes>>
  /\ UNCHANGED cdOthers

CodecNext ==
  \/ Encode
  \/ Decode

(***************************************************************************)
(* imaging.FrameBuffer.median and extract_layers, element by element on    *)
(* arrays of uint8 values.                                                 *)
(***************************************************************************)
\* The images explored have one pixel; the current frame's values, the
\* buffered frames' values and the thresholds explored.
Bytes == {0, GREY, MaxByte}

BufferBytes == {0, MaxByte}

Thresholds == {-1, 42, MaxByte, MaxByte + 45}

Images == [1..Channels -> Bytes]

BufferImages == [1..Channels -> BufferBytes]

\* The k-th smallest of a sequence of numbers.
kth(values, k) ==
  CHOOSE v \in Range(values) :
    /\ Cardinality({i \in DOMAIN values : values[i] < v}) < k
    /\ Cardinality({i \in DOMAIN values : values[i] <= v}) >= k

\* numpy.median of the values, converted to uint8 (the fraction is dropped).
median_of(values) ==
  LET n == Len(values)
  IN IF n % 2 = 1 THEN kth(values, (n + 1) \div 2)
     ELSE (kth(values, n \div 2) + kth(values, n \div 2 + 1)) \div 2

\* FrameBuffer.median: the median over the frames, for every element.
median(buffer) ==
  [e \in 1..Channels |-> median_of([f \in DOMAIN buffer |-> buffer[f][e]])]

\* cv2.absdiff on uint8 values
absdiff(a, b) == IF a >= b THEN a - b ELSE b - a

\* mask = diff > diff_threshold
exceeds_mutant(diff, diff_threshold) == diff >= diff_threshold

exceeds(diff, diff_threshold) == diff > diff_threshold

\* extract_layers (imaging.py:662-702)
extract_layers(buffer, image, diff_threshold) ==
  LET background == median(buffer)
      mask == [e \in 1..Channels |->
                 exceeds(absdiff(image[e], background[e]), diff_threshold)]
  IN [background |-> background,
      foreground |-> [e \in 1..Channels |->
                        IF mask[e] THEN image[e] ELSE GREY],
      mask       |-> mask]

NoLayers ==
  [background |-> << >>, foreground |-> << >>, mask |-> << >>]

LayersInit ==
  /\ ly_pc = "full"
  /\ \E n \in 1..MaxFrames : ly_buffer \in [1..n -> BufferImages]
  /\ ly_image \in Images
  /\ ly_threshold \in Thresholds
  /\ ly_layers = NoLayers

LayersOff ==
  /\ ly_pc = "extracted"
  /\ ly_buffer = << >>
  /\ ly_image = << >>
  /\ ly_threshold = 0
  /\ ly_layers = NoLayers

\* buffer.extract_layers(frame, diff_threshold) on a full buffer
ExtractLayers ==
  /\ ly_pc = "full"
  /\ ly_layers' = extract_layers(ly_buffer, ly_image, ly_threshold)
  /\ ly_pc' = "extracted"
  /\ UNCHANGED <<ly_buffer, ly_image, ly_threshold>>
  /\ UNCHANGED lyOthers

LayersNext == ExtractLayers

(***************************************************************************)
(* The blob fetch that opens the body of both record loops: the recording  *)
(* coordinator's loop over the range scan (record.py:181-188) and          *)
(* analyze_stream's loop over the sampled records (detection.py:398-406):  *)
(*     image_bytes = bus.get(image_key)                                    *)
(*     if not image_bytes: log.error(...); continue                        *)
(*     frame = pintu.imaging.Frame.decode(image_bytes)                     *)
(* Neither loop has a try around the decode.                               *)
(***************************************************************************)
Loops == {"record", "detection"}

\* bus.get found nothing under the key
Missing == [image |-> << >>, json |-> json_dumps(NoFrame),
            mlen |-> << >>, mver |-> << >>]

\* The values found under an image key: encoded frames whose trailer
\* decodes and encoded frames whose trailer does not.
StoredBlobs ==
  { encode(f, "jpg") :
      f \in [pixels : {[i \in 1..NumPixels |-> 0]}, kind : {"input"},
             timestamp : {1, 2}, meta : [len : JsonLens, at : {0, 20}]] }

\* What one pass through the fetch does with the record.
fetch_outcome(image_bytes) ==
  IF image_bytes = Missing THEN "skipped"
  ELSE IF decode(image_bytes).status = "ok" THEN "decoded"
  ELSE decode(image_bytes).status

FetchInit ==
  /\ ft_pc = [l \in Loops |-> "loop"]
  /\ ft_blob = Missing
  /\ ft_log = << >>

FetchOff ==
  /\ ft_pc = [l \in Loops |-> "crashed"]
  /\ ft_blob = Missing
  /\ ft_log = << >>

\* One record of loop l: the blob is fetched; a missing blob is logged and
\* the record skipped, any other is decoded, and an exception of the
\* decode leaves the loop.
Fetch(l) ==
  /\ ft_pc[l] = "loop"
  /\ Len(ft_log) < MaxFetched
  /\ \E image_bytes \in StoredBlobs \cup {Missing} :
       /\ ft_blob' = image_bytes
       /\ ft_log' = Append(ft_log,
            [loop |-> l, outcome |-> fetch_outcome(image_bytes)])
       /\ ft_pc' = [ft_pc EXCEPT ![l] =
                      IF fetch_outcome(image_bytes) \in {"skipped", "decoded"}
                        THEN "loop" ELSE "crashed"]
  /\ UNCHANGED ftOthers

\* record.py:181-188
RecordFetch == Fetch("record")

\* detection.py:398-406
AnalyzeFetch == Fetch("detection")

FetchNext ==
  \/ RecordFetch
  \/ AnalyzeFetch

\* The components added after the recording coordinator, switched off.
MoreOff ==
  PinsOff /\ ActuatorOff /\ DetectOff /\ CodecOff /\ LayersOff /\ FetchOff

RestOff == GpioOff /\ HistoryOff /\ StreamIdOff /\ MoreOff

(***************************************************************************)
InitSample == SampleInit /\ BufferOff /\ CaptureOff /\ RecordOff /\ RestOff

SpecSample == InitSample /\ [][SampleNext]_vars

\* The generator's loop keeps polling while the consumer waits in next(),
\* and the consumer (a for loop over the generator) asks for the next record.
SamplePoll == SampleYield \/ SampleSleep \/ SampleStop

SpecSampleLive ==
  InitSample /\ [][SampleNext]_vars
    /\ WF_vars(SamplePoll) /\ WF_vars(SampleResume)

InitBuffer == BufferInit /\ SampleOff /\ CaptureOff /\ RecordOff /\ RestOff

SpecBuffer == InitBuffer /\ [][BufferNext]_vars

InitCapture == CaptureInit /\ BufferOff /\ SampleOff /\ RecordOff /\ RestOff

SpecCapture == InitCapture /\ [][CaptureNext]_vars

InitRecord == RecordInit /\ BufferOff /\ SampleOff /\ CaptureOff /\ RestOff

SpecRecord == InitRecord /\ [][RecordNext]_vars

InitGpio ==
  GpioInit /\ BufferOff /\ SampleOff /\ CaptureOff /\ RecordOff
    /\ HistoryOff /\ StreamIdOff /\ MoreOff

SpecGpio == InitGpio /\ [][GpioNext]_vars

InitPins ==
  PinsInit /\ BufferOff /\ SampleOff /\ CaptureOff /\ RecordOff
    /\ GpioOff /\ HistoryOff /\ StreamIdOff /\ ActuatorOff /\ DetectOff
    /\ CodecOff /\ LayersOff
    /\ FetchOff

SpecPins == InitPins /\ [][PinsNext]_vars

InitLock ==
  ActuatorInit /\ BufferOff /\ SampleOff /\ CaptureOff /\ RecordOff
    /\ GpioOff /\ HistoryOff /\ StreamIdOff /\ PinsOff /\ DetectOff
    /\ CodecOff /\ LayersOff
    /\ FetchOff

SpecActuator == InitLock /\ [][ActuatorNext]_vars

SpecUnlock == InitLock /\ [][UnlockNext]_vars

InitDetect ==
  DetectInit /\ BufferOff /\ SampleOff /\ CaptureOff /\ RecordOff
    /\ GpioOff /\ HistoryOff /\ StreamIdOff /\ PinsOff /\ ActuatorOff
    /\ CodecOff /\ LayersOff
    /\ FetchOff

SpecDetect == InitDetect /\ [][DetectNext]_vars

InitCodec ==
  CodecInit /\ BufferOff /\ SampleOff /\ CaptureOff /\ RecordOff
    /\ GpioOff /\ HistoryOff /\ StreamIdOff /\ PinsOff /\ ActuatorOff
    /\ DetectOff /\ LayersOff
    /\ FetchOff

SpecCodec == InitCodec /\ [][CodecNext]_vars

InitLayers ==
  LayersInit /\ BufferOff /\ SampleOff /\ CaptureOff /\ RecordOff
    /\ GpioOff /\ HistoryOff /\ StreamIdOff /\ PinsOff /\ ActuatorOff
    /\ DetectOff /\ CodecOff
    /\ FetchOff

SpecLayers == InitLayers /\ [][LayersNext]_vars

InitHistory ==
  HistoryInit /\ BufferOff /\ SampleOff /\ CaptureOff /\ RecordOff
    /\ GpioOff /\ StreamIdOff /\ MoreOff

SpecHistory == InitHistory /\ [][HistoryNext]_vars

InitStreamId ==
  StreamIdInit /\ BufferOff /\ SampleOff /\ CaptureOff /\ RecordOff
    /\ GpioOff /\ HistoryOff /\ MoreOff

SpecStreamId == InitStreamId /\ [][StreamIdNext]_vars

(***************************************************************************)
(* C3: sample_stream never yields a record twice: in any interleaving of   *)
(* producer appends and consumer polls the ids of the records it yields    *)
(* are strictly increasing, and a poll that returns the last delivered id  *)
(* yields nothing.                                                         *)
(***************************************************************************)
C3_NoRedelivery ==
  [][ /\ ss_yielded' # ss_yielded =>
           /\ Len(ss_yielded') = Len(ss_yielded) + 1
           /\ SubSeq(ss_yielded', 1, Len(ss_yielded)) = ss_yielded
           /\ \A i \in DOMAIN ss_yielded :
                ss_yielded[i] < ss_yielded'[Len(ss_yielded')]
      /\ (/\ ss_pc = "poll"
          /\ ss_yielded # << >>
          /\ xrevrange(ss_stream, ss_last) = << ss_yielded[Len(ss_yielded)] >>)
           => ss_yielded' = ss_yielded
    ]_vars

C3_Witness ==
  /\ Len(ss_yielded) >= 2
  /\ ss_lastpoll = "same"
  /\ Len(ss_stream) < ss_topid

(***************************************************************************)
(* Vocabulary of the recording claims.                                     *)
(***************************************************************************)
\* The coordinator is working on a popped and merged request.
InRequest == rec_pc \in {"announce", "while", "frames"}

\* The coordinator waits for a request, every submitted one being served.
Idle == rec_pc = "blpop" /\ rs_queue = << >> /\ rq_pc = "idle"

Finished1 == {i \in DOMAIN rs_recordings : rs_recordings[i].finished = 1}

\* The two requests of C1, submitted in this order, with a fetchable capture
\* frame at every second of T0..T0+8, both requests served.
C1_Scenario ==
  /\ rq_submitted = << <<T0, T0 + 5>>, <<T0 + 2, T0 + 8>> >>
  /\ (T0..(T0 + 8)) \subseteq rs_blobs
  /\ Idle

\* Exactly one video file, exactly one finished=1 record, spanning T0..T0+8.
C1_OneRecording ==
  /\ Len(rec_files) = 1
  /\ Cardinality(Finished1) = 1
  /\ \A i \in Finished1 :
       /\ rs_recordings[i].start = T0
       /\ rs_recordings[i].end = T0 + 8
       /\ rs_recordings[i].file = rec_files[1].file
  /\ rec_files[1].frames[1] = T0
  /\ rec_files[1].frames[Len(rec_files[1].frames)] = T0 + 8

\* When the second request wrote record-until, the coordinator had not
\* completed the first recording (it had not returned to blpop after it).
C1_BeforeCompleted ==
  rq_setlog[2].pops = 0 \/ rq_setlog[2].pc # "blpop"

\* When the second request wrote record-until, the coordinator had not yet
\* made its last read of record-until for the first recording: it had not
\* left the scan loop for good.
C1_BeforeLastRead ==
  \/ rq_setlog[2].pops = 0
  \/ rq_setlog[2].pc \in {"getset", "announce", "frames"}
  \/ rq_setlog[2].pc = "while" /\ ~ rq_setlog[2].closing

(***************************************************************************)
(* C1 as claimed: requests (T0, T0+5) then (T0+2, T0+8), the second        *)
(* submitted at any point before the coordinator has completed the first,  *)
(* frames throughout: exactly one video file and one finished=1 record,    *)
(* spanning T0..T0+8.                                                      *)
(***************************************************************************)
C1_Claimed ==
  (C1_Scenario /\ C1_BeforeCompleted) => C1_OneRecording

(***************************************************************************)
(* C1 as amended: the same, for every point at which the second request    *)
(* writes record-until before the coordinator's last read of record-until  *)
(* for the first recording.                                                *)
(***************************************************************************)
C1_OneRecordingIfInTime ==
  (C1_Scenario /\ C1_BeforeLastRead) => C1_OneRecording

C1_Witness ==
  /\ C1_Scenario
  /\ rq_setlog[2].pops = 1
  /\ rq_setlog[2].pc = "frames"
  /\ C1_OneRecording

(***************************************************************************)
(* C4: every finished=0 record the coordinator appends is followed by a    *)
(* finished=1 record with the same start and file once the requested       *)
(* interval has been processed, whether or not any frame lies in it.       *)
(***************************************************************************)
C4_EveryOpenRecordIsClosed ==
  rec_pc = "blpop" =>
    \A i \in DOMAIN rs_recordings :
      rs_recordings[i].finished = 0 =>
        \E j \in DOMAIN rs_recordings :
          /\ j > i
          /\ rs_recordings[j].finished = 1
          /\ rs_recordings[j].start = rs_recordings[i].start
          /\ rs_recordings[j].file = rs_recordings[i].file

(***************************************************************************)
(* C5: when the merged start of a popped request does not       *)
(* exceed the last recorded frame timestamp, the coordinator opens no      *)
(* video file and appends no record for that request, whatever its end.    *)
(***************************************************************************)
C5_Subsumed == InRequest /\ rec_merge.start <= rec_merge.last

C5_NothingWhenSubsumed ==
  [][ C5_Subsumed =>
        (rec_files' = rec_files /\ rs_recordings' = rs_recordings) ]_vars

(***************************************************************************)
(* C6: if a record-until value later than the current end is there when    *)
(* the range scan is exhausted, the re-check adopts it, the loop goes on   *)
(* with the same file and writer and no finished=1 record in between, and  *)
(* when the finished=1 record is appended every fetchable frame up to the  *)
(* adopted bound is in that file.                                          *)
(***************************************************************************)
C6_ExtensionPickedUp ==
  [][ /\ (/\ rec_pc = "frames" /\ rec_scan = << >> /\ rec_pc' # rec_pc
          /\ rs_until > end_timestamp)
           => /\ end_timestamp' = rs_until
              /\ rec_pc' = "while"
              /\ loop_continues(last_recorded_frame_timestamp',
                                end_timestamp')
              /\ recording_file' = recording_file
              /\ video_writer' = video_writer
              /\ rec_files' = rec_files
              /\ rs_recordings' = rs_recordings
      /\ (/\ InRequest
          /\ Len(rs_recordings') = Len(rs_recordings) + 1
          /\ rs_recordings'[Len(rs_recordings')].finished = 1)
           => /\ video_writer # None
              /\ rec_files[video_writer].file =
                   rs_recordings'[Len(rs_recordings')].file
              /\ \A t \in rs_blobs :
                   (/\ Max(rec_merge.start, rec_merge.last) <= t
                    /\ t <= rec_extended)
                     => t \in Range(rec_files[video_writer].frames)
    ]_vars

C6_Witness ==
  /\ rec_pc = "blpop"
  /\ rec_extended > rec_merge.end
  /\ rs_recordings # << >>
  /\ rs_recordings[Len(rs_recordings)].finished = 1
  /\ rs_recordings[Len(rs_recordings)].end = rec_extended
  /\ rec_extended \in Range(rec_files[video_writer].frames)
  /\ rec_merge.start \in Range(rec_files[video_writer].frames)

(***************************************************************************)
(* C7: while a recording is in progress the coordinator's end bound never  *)
(* decreases: every record-until value it reads, on popping a request and  *)
(* on each re-check, is combined by maximum with the current end.          *)
(***************************************************************************)
C7_EndNeverDecreases ==
  [][ InRequest => end_timestamp' >= end_timestamp ]_vars

(***************************************************************************)
(* C11: with an idle timeout, sample_stream stops, yielding nothing more,  *)
(* at the first poll that finds no new id after more than the timeout has  *)
(* passed since the last delivery (or since the start), on an empty stream *)
(* and on one whose newest entry was delivered; once stopped it stays      *)
(* stopped; without a timeout it never stops.                              *)
(***************************************************************************)
C11_Idle ==
  /\ ss_pc = "poll"
  /\ ss_timeout # 0
  /\ ss_now > ss_timeout
  /\ nothing_new(xrevrange(ss_stream, ss_last), ss_last)

C11_IdleTimeoutStops ==
  /\ [][ (C11_Idle /\ <<ss_pc, ss_now, ss_last>>' # <<ss_pc, ss_now, ss_last>>)
          => (ss_pc' = "stopped" /\ ss_yielded' = ss_yielded) ]_vars
  /\ C11_Idle ~> (\/ ss_pc = "stopped"
                  \/ ~ nothing_new(xrevrange(ss_stream, ss_last), ss_last))
  /\ [][ ss_pc = "stopped"
          => (ss_pc' = "stopped" /\ ss_yielded' = ss_yielded) ]_vars
  /\ [](ss_timeout = 0 => ss_pc # "stopped")

\* Stopped by the timeout after the newest entry was delivered.
C11_Witness ==
  /\ ss_pc = "stopped"
  /\ ss_timeout # 0
  /\ ss_lastpoll = "same"
  /\ ss_yielded # << >>
  /\ ss_stream # << >>
  /\ ss_stream[Len(ss_stream)] = ss_yielded[Len(ss_yielded)]

(***************************************************************************)
(* C12: with the input active-High and a 2000 ms debounce window on both   *)
(* edges, two raw edges 500 ms apart cause exactly one handler invocation  *)
(* and two raw edges 2500 ms apart cause exactly two.                      *)
(***************************************************************************)
C12_TwoEdges(gap) ==
  /\ gp_trigger = 1
  /\ gp_debounce = DOORBELL_DEBOUNCE_MS
  /\ Len(gp_edges) = 2
  /\ gp_edges[2] - gp_edges[1] = gap
  /\ gp_pending = 0

C12_DebounceCollapses ==
  /\ C12_TwoEdges(500) => Len(gp_calls) = 1
  /\ C12_TwoEdges(2500) => Len(gp_calls) = 2

C12_Witness == C12_TwoEdges(500) /\ Len(gp_calls) = 1

(***************************************************************************)
(* C21: every invocation of an input handler (doorbell, door sensor, lock  *)
(* sensor) issues one recording request: as many record_it calls have been *)
(* made as handlers were invoked, whatever state they were invoked with.   *)
(***************************************************************************)
C21_EveryCallRequests == Len(gp_records) = Len(gp_calls)

(***************************************************************************)
(* C22: graceful_shutdown attempts the removal of every configured input's *)
(* edge detection and then calls cleanup, whatever inputs are configured   *)
(* and whatever removals fail: it never ends otherwise.                    *)
(***************************************************************************)
C22_ShutdownCompletes ==
  pn_pc \in {"off", "shutdown_raised"} =>
    /\ pn_cleaned
    /\ \A k \in 1..NumInputs : pn_inputs[k] => k \in pn_attempted

(***************************************************************************)
(* C23: when configuring one pin fails during initialize, every other      *)
(* configured input is still set up and has its edge detection registered  *)
(* by the time initialize ends.                                            *)
(***************************************************************************)
C23_InitializeContinues ==
  pn_pc \in {"init_raised", "running"} /\ pn_failed # 0 =>
    \A k \in 1..NumInputs :
      pn_inputs[k] /\ k # pn_failed => k \in pn_setup /\ k \in pn_detect

(***************************************************************************)
(* C24: after any sequence of unlock_door and lock_door calls the actuator *)
(* level is the configured unlock pinstate if the last call was            *)
(* unlock_door and its inversion if it was lock_door, and a call repeating *)
(* the call before it leaves the level as it was, for both pinstates.      *)
(***************************************************************************)
LastCall == lk_calls[Len(lk_calls)]

C24_LevelByLastCall ==
  lk_calls # << >> =>
    /\ LastCall = "unlock" => lk_level = lk_signal
    /\ LastCall = "lock" => lk_level = invert(lk_signal)
    /\ lk_level \in {0, 1}
    /\ Len(lk_calls) >= 2 /\ lk_calls[Len(lk_calls) - 1] = LastCall =>
         lk_level = lk_before

C24_Witness ==
  /\ lk_signal = 0
  /\ Len(lk_calls) = 4
  /\ SubSeq(lk_calls, 2, 4) = <<"lock", "unlock", "unlock">>
  /\ lk_level = 0
  /\ lk_before = 0

(***************************************************************************)
(* C25: for any interleaving of unlock requests, while no request is in    *)
(* flight after one was made, and in particular once every request has     *)
(* returned, the actuator is at the locked level, the inversion of the     *)
(* unlock pinstate.                                                        *)
(***************************************************************************)
C25_InFlight == {r \in 1..NumUnlock : lk_req[r] = "sleep"}

C25_Returned == {r \in 1..NumUnlock : lk_req[r] = "returned"}

C25_RelockedWhenQuiet ==
  /\ C25_InFlight = {} /\ C25_Returned # {} =>
       lk_level = invert(lk_signal) /\ LastCall = "lock"
  /\ Len(lk_calls) = Cardinality(C25_InFlight) + 2 * Cardinality(C25_Returned)

C25_Witness ==
  /\ C25_Returned = 1..NumUnlock
  /\ SubSeq(lk_calls, 1, 4) = <<"unlock", "unlock", "lock", "unlock">>
  /\ lk_level = invert(lk_signal)

(***************************************************************************)
(* C26: for every sampled capture record whose inference blob is present,  *)
(* exactly one detection-stream record is submitted, under the record's    *)
(* id and with count equal to the number of detections returned, zero      *)
(* detections included.                                                    *)
(***************************************************************************)
C26_SubmittedFor(id) == {j \in DOMAIN dt_submitted : dt_submitted[j].id = id}

C27_Finished1 == {i \in DOMAIN rs_recordings : rs_recordings[i].finished = 1}

C27_FilesHaveFrames ==
  /\ \A i \in DOMAIN rec_files : rec_files[i].frames # << >>
  /\ video_writer # None =>
       /\ video_writer = Len(rec_files)
       /\ rec_files[video_writer].file = recording_file
  /\ Cardinality(C27_Finished1) <= Len(rec_files)

C27_FileOnFirstFrame ==
  Len(rec_files') > Len(rec_files) =>
    /\ video_writer = None
    /\ rec_scan # << >>
    /\ Head(rec_scan) \in rs_blobs
    /\ rec_files'[Len(rec_files')].frames = << Head(rec_scan) >>

C27_FinishedOnlyWithFile ==
  Len(rs_recordings') > Len(rs_recordings)
    /\ rs_recordings'[Len(rs_recordings')].finished = 1 =>
      /\ video_writer # None
      /\ rs_recordings'[Len(rs_recordings')].file = recording_file

C27_LazyFile ==
  /\ []C27_FilesHaveFrames
  /\ [][C27_FileOnFirstFrame /\ C27_FinishedOnlyWithFile]_vars

C27_Witness ==
  /\ rec_pc = "blpop"
  /\ rec_pops = 2
  /\ rs_queue = << >>
  /\ Len(rec_files) = 1
  /\ Cardinality(C27_Finished1) = 1
  /\ \E r \in Range(rq_submitted) :
       \A t \in rs_blobs : ~ (r[1] <= t /\ t <= r[2])

(***************************************************************************)
(* C28: for any valid frame and any free-form metadata, whatever its       *)
(* characters and length, decoding the encoded frame succeeds and gives    *)
(* the same pixel data, kind, timestamp and metadata.                      *)
(***************************************************************************)
C28_RoundTrip ==
  cd_pc = "decoded" =>
    /\ cd_decoded.status = "ok"
    /\ cd_decoded.frame = cd_frame

C30_Pushed == Len(rq_submitted) - (IF rq_pc = "push" THEN 1 ELSE 0)

C30_EndWrittenBeforeStart ==
  /\ rec_pops + Len(rs_queue) = C30_Pushed
  /\ \A i \in DOMAIN rs_queue : rs_queue[i] = rq_submitted[rec_pops + i][1]
  /\ rs_queue # << >> => rs_until # NoVal
  /\ rec_pc = "getset" =>
       /\ rs_until # NoVal
       /\ start_binstr = rq_submitted[rec_pops][1]

C30_Witness ==
  /\ rec_pc = "getset"
  /\ rec_pops = 2
  /\ rq_pc = "idle"
  /\ rs_until = UTC_DATETIME_MIN
  /\ rq_setlog[2].pc = "frames"

(***************************************************************************)
(* C13: for any content of the recording stream in the queried range,      *)
(* get_recordings returns one entry per recording start, the latest record *)
(* with that start; no recording with a different start loses its entry.   *)
(***************************************************************************)
C13_OneEntryPerStart ==
  LET in == hs_query.seen
      out == hs_result
  IN    /\ {in[i].start : i \in DOMAIN in} = {out[j].start : j \in DOMAIN out}
        /\ \A j, k \in DOMAIN out : out[j].start = out[k].start => j = k
        /\ \A j \in DOMAIN out :
             \E i \in DOMAIN in :
               /\ in[i] = out[j]
               /\ \A l \in DOMAIN in : in[l].start = in[i].start => l <= i

(***************************************************************************)
(* C14: for any non-decreasing sequence of source frame positions, any two *)
(* frames consecutively retained by frames_from_video are at least the     *)
(* sample interval (1/sample_rate) apart in source position.               *)
(***************************************************************************)
C14_RetainedSpacing ==
  \A i \in 1..(Len(cap_retained) - 1) :
    cap_retained[i + 1] - cap_retained[i] >= SampleInterval

(***************************************************************************)
(* C15: any two frames that capture feeds consecutively into the frame     *)
(* buffer have capture timestamps at least buffer_interval apart (the      *)
(* buffer keeps the frames fed to it in feeding order).                    *)
(***************************************************************************)
C15_BufferFeedSpacing ==
  \A i \in 1..(Len(cap_buffer) - 1) :
    cap_buffer[i + 1] - cap_buffer[i] >= BufferInterval

C17_StoreFailureSurvived ==
  /\ cap_pc # "crashed"
  /\ cap_buffer_size = 0
       => Len(cap_retained) = Len(cap_accepted) + cap_errors

(***************************************************************************)
(* C18: for a source whose frame positions strictly increase, the ids      *)
(* capture submits strictly increase, the capture stream is ordered by     *)
(* capture timestamp in every reachable state and no append is rejected    *)
(* for its id.                                                             *)
(***************************************************************************)
C18_IdsIncrease ==
  gen_strict =>
    /\ \A i \in 1..(Len(cap_retained) - 1) :
         cap_retained[i] < cap_retained[i + 1]
    /\ \A i \in 1..(Len(st_stream) - 1) :
         st_stream[i].id < st_stream[i + 1].id
    /\ cap_errors = 0

(***************************************************************************)
(* Vocabulary of the stream id claim.                                      *)
(***************************************************************************)
\* The instant a timestamp denotes: hours since year 0 in UTC, and micro.
instant(ts) == << ts.year * HoursPerYear + ts.hour - ts.offset, ts.micro >>

earlier(t1, t2) ==
  \/ instant(t1)[1] < instant(t2)[1]
  \/ instant(t1)[1] = instant(t2)[1] /\ instant(t1)[2] < instant(t2)[2]

utc_year(ts) == instant(ts)[1] \div HoursPerYear

\* Lexicographic order of two strings.
RECURSIVE lex_less(_, _)
lex_less(a, b) ==
  IF b = << >> THEN FALSE
  ELSE IF a = << >> THEN TRUE
  ELSE IF Head(a) # Head(b) THEN Head(a) < Head(b)
  ELSE lex_less(Tail(a), Tail(b))

\* The store's reading of an id: the integers before and after the "-".
RECURSIVE to_int(_)
to_int(d) ==
  IF d = << >> THEN 0
  ELSE 10 * to_int(SubSeq(d, 1, Len(d) - 1)) + (d[Len(d)] - 48)

dash(id) == CHOOSE i \in DOMAIN id : id[i] = 45

id_pair(id) ==
  << to_int(SubSeq(id, 1, dash(id) - 1)),
     to_int(SubSeq(id, dash(id) + 1, Len(id))) >>

store_less(a, b) ==
  \/ id_pair(a)[1] < id_pair(b)[1]
  \/ id_pair(a)[1] = id_pair(b)[1] /\ id_pair(a)[2] < id_pair(b)[2]

C19_Computed ==
  sid_id1 # << >> /\ sid_id2 # << >> /\ earlier(sid_t1, sid_t2)

(***************************************************************************)
(* C19 as claimed: for any two timezone-aware timestamps t1 < t2, in       *)
(* whatever time zone each is expressed, stream_id(t1) sorts strictly      *)
(* before stream_id(t2), lexicographically and as a store id.              *)
(***************************************************************************)
C19_Claimed ==
  C19_Computed =>
    lex_less(sid_id1, sid_id2) /\ store_less(sid_id1, sid_id2)

(***************************************************************************)
(* C19 as amended: for any two timezone-aware timestamps t1 < t2, in       *)
(* whatever time zone each is expressed, stream_id(t1) sorts strictly      *)
(* before stream_id(t2) as a store id, and also lexicographically when     *)
(* both lie in the UTC years 1000..9999.                                   *)
(***************************************************************************)
C19_OrderPreserved ==
  C19_Computed =>
    /\ store_less(sid_id1, sid_id2)
    /\ (utc_year(sid_t1) >= 1000 /\ utc_year(sid_t2) <= 9999)
         => lex_less(sid_id1, sid_id2)

\* Two timestamps of one year whose wall-clock order is the reverse of
\* their order in time.
C19_Witness ==
  /\ C19_Computed
  /\ sid_t1.year = sid_t2.year
  /\ sid_t1.hour > sid_t2.hour
  /\ sid_t1.offset # sid_t2.offset
  /\ utc_year(sid_t1) >= 1000
  /\ lex_less(sid_id1, sid_id2)
  /\ store_less(sid_id1, sid_id2)

(***************************************************************************)
(* C20: the capture stream bound is round(retention x sample_rate) and the *)
(* blob TTL retention x 1.10 (60 s at 5 fps: 300 and 66 s); every record   *)
(* still retained in the capture stream points to a raw-frame blob that    *)
(* has not expired, and the blob of a trimmed record stays fetchable until *)
(* its TTL elapses.  The source is live: the clock reads start_time plus   *)
(* the position of the frame grabbed last.                                 *)
(***************************************************************************)
C20_Now == frame_timestamp(gen_pos)

C20_Expired(ts) == 10 * (C20_Now - ts) >= ttl_tenths(Retention)

C20_RetainedBlobsAlive ==
  /\ stream_length(60000, 200) = 300
  /\ ttl_tenths(60000) = 660000
  /\ \A i \in DOMAIN st_stream :
       st_stream[i].id >= StartTime =>
         /\ <<st_stream[i].id, "input">> \in st_blobs
         /\ ~ C20_Expired(st_stream[i].id)
  /\ \A ts \in st_trimmed :
       (ts >= StartTime /\ ~ C20_Expired(ts)) => <<ts, "input">> \in st_blobs

(***************************************************************************)
(* C2: for every captured frame the raw-frame blob, the frame metadata     *)
(* hash and the capture-stream record are applied all-or-nothing: in no    *)
(* reachable store state, also when the store rejects one command of the   *)
(* batch, does a reader see some of the three without the others.          *)
(* (A record counts as applied when it is in the stream or was trimmed.)   *)
(***************************************************************************)
StreamIds(stream) == {stream[i].id : i \in DOMAIN stream}

C2_AllOrNothing ==
  \A ts \in st_hashes \cup {b[1] : b \in st_blobs}
            \cup StreamIds(st_stream) \cup st_trimmed :
    LET blob == <<ts, "input">> \in st_blobs
        hash == ts \in st_hashes
        rec  == ts \in StreamIds(st_stream) \cup st_trimmed
    IN (blob /\ hash /\ rec) \/ (~ blob /\ ~ hash /\ ~ rec)

(***************************************************************************)
(* C8: for every frame retained by the sample-rate decimation, capture     *)
(* stores the raw-frame blob and appends exactly one capture-stream        *)
(* record, for every buffer configuration (no buffer; a buffer of capacity *)
(* N >= 1, before and after it is full).  Stated for the runs in which the *)
(* store rejected no batch, once capture has returned.                     *)
(***************************************************************************)
C8_EveryRetainedFramePublished ==
  (cap_pc = "done" /\ cap_errors = 0) =>
    /\ cap_accepted = cap_retained
    /\ \A i \in DOMAIN cap_retained : <<cap_retained[i], "input">> \in st_blobs

(***************************************************************************)
(* C9: for every FrameBuffer of capacity N >= 1 and every k >= 0, after    *)
(* shifting N+k frames into an empty buffer its length is N and it holds   *)
(* exactly the last N shifted frames, in insertion order.                  *)
(***************************************************************************)
C9_LastNFrames ==
  Len(fb_shifted) >= fb_maxlen =>
    /\ Len(fb_items) = fb_maxlen
    /\ fb_items = LastN(fb_shifted, fb_maxlen)

C9_Witness ==
  /\ fb_maxlen = 2
  /\ Len(fb_shifted) = fb_maxlen + 2
  /\ fb_items = LastN(fb_shifted, 2)
  /\ fb_items[1] # fb_items[2]

(***************************************************************************)
(* C10: the length never exceeds N and full is true exactly when the       *)
(* length is N; a shift returns the oldest frame exactly when the buffer   *)
(* was full before the call, and otherwise returns nothing and the buffer  *)
(* grows by one.                                                           *)
(***************************************************************************)
C10_FullAndReturn ==
  /\ Len(fb_items) <= fb_maxlen
  /\ full(fb_items, fb_maxlen) <=> (Len(fb_items) = fb_maxlen)
  /\ fb_shifted # << >> =>
       IF Len(fb_before) = fb_maxlen
         THEN /\ fb_return = Head(fb_before)
              /\ Len(fb_items) = Len(fb_before)
         ELSE /\ fb_return = None
              /\ Len(fb_items) = Len(fb_before) + 1

C10_Witness ==
  /\ fb_maxlen = 2
  /\ Len(fb_before) = 2
  /\ fb_return = Head(fb_before)
  /\ fb_return # None
  /\ fb_before[1] # fb_before[2]

(***************************************************************************)
(* The coordinator started on a store that already holds requests: the     *)
(* record queue is a list and record-until a string key of the store, and  *)
(* the coordinator reads whatever they hold (record.py:117-121), a value   *)
(* record() wrote or any other.  NoVal stands for every value that         *)
(* datetime.fromisoformat rejects, the absent key included (safe_str turns *)
(* None into "None").                                                      *)
(***************************************************************************)
\* The start values found in the queue and the record-until values found
\* under the key when the coordinator starts.
QueuedStarts == {NoVal, T0, T0 + 2}

QueuedUntils == {NoVal, T0 + 3, T0 + 5}

QueuedSeqs ==
  UNION { [1..n -> QueuedStarts] : n \in 1..MaxQueued }

ParseInit ==
  /\ rs_queue \in QueuedSeqs
  /\ rs_until \in QueuedUntils
  /\ rs_recordings = << >>
  /\ \E capture \in FrameSets, cutoff \in Cutoffs :
       /\ rs_capture = capture
       /\ rs_blobs = {t \in capture : t >= cutoff}
  /\ rq_pc = "idle"
  /\ rq_submitted = << >>
  /\ rq_setlog = << >>
  /\ rec_pc = "blpop"
  /\ start_binstr = NoVal
  /\ start_timestamp = UTC_DATETIME_MIN
  /\ end_timestamp = UTC_DATETIME_MIN
  /\ last_recorded_frame_timestamp = UTC_DATETIME_MIN
  /\ recording_file = None
  /\ video_writer = None
  /\ rec_scan = << >>
  /\ rec_files = << >>
  /\ rec_pops = 0
  /\ rec_merge = [start |-> 0, end |-> 0, last |-> 0]
  /\ rec_extended = 0

InitParse == ParseInit /\ BufferOff /\ SampleOff /\ CaptureOff /\ RestOff

\* No record() call is in flight: the coordinator drains what it found.
ParseNext ==
  \/ Blpop
  \/ GetSet
  \/ Announce
  \/ Scan
  \/ WriteFrame
  \/ SkipFrame
  \/ Recheck
  \/ Finish

SpecParse == InitParse /\ [][ParseNext]_vars

(***************************************************************************)
(* C31: when a popped request has an unparseable start or record-until     *)
(* value, the coordinator skips it: it appends no record, writes no frame, *)
(* leaves its merged start and end exactly as they were before the         *)
(* request, and goes back to block for the next request.                   *)
(***************************************************************************)
C31_Unparseable ==
  rec_pc = "getset" /\ ~ (parseable(start_binstr) /\ parseable(rs_until))

C31_SkipLeavesMerge ==
  [][ C31_Unparseable =>
        /\ rec_pc' = "blpop"
        /\ UNCHANGED <<rs_recordings, rec_files>>
        /\ start_timestamp' = start_timestamp
        /\ end_timestamp' = end_timestamp ]_vars

InitFetch ==
  FetchInit /\ BufferOff /\ SampleOff /\ CaptureOff /\ RecordOff
    /\ GpioOff /\ HistoryOff /\ StreamIdOff /\ PinsOff /\ ActuatorOff
    /\ DetectOff /\ CodecOff /\ LayersOff

SpecFetch == InitFetch /\ [][FetchNext]_vars

(***************************************************************************)
(* C32: when the recording coordinator or the detection pipeline fetches a *)
(* frame blob that is missing or malformed, it logs the problem, skips     *)
(* that record and continues with the next one: neither loop is ended by a *)
(* bad blob.                                                               *)
(***************************************************************************)
C32_BadBlobSkipped ==
  /\ \A l \in Loops : ft_pc[l] = "loop"
  /\ \A i \in DOMAIN ft_log : ft_log[i].outcome \in {"skipped", "decoded"}

(***************************************************************************)
(* C33: for every request (start, end) submitted through record(), once    *)
(* the coordinator has processed it and is idle again, every capture frame *)
(* with a fetchable blob and a timestamp in [start, end] has been written  *)
(* to a recording file, for any order and timing of the requests.          *)
(***************************************************************************)
\* Every submitted request was popped and the coordinator blocks again.
C33_Idle ==
  /\ rec_pc = "blpop"
  /\ rq_pc = "idle"
  /\ rs_queue = << >>
  /\ rq_submitted # << >>

C33_Written == UNION { Range(rec_files[i].frames) : i \in DOMAIN rec_files }

C33_RequestedFramesWritten ==
  C33_Idle =>
    \A i \in DOMAIN rq_submitted :
      \A t \in rs_blobs :
        (rq_submitted[i][1] <= t /\ t <= rq_submitted[i][2])
          => t \in C33_Written

(***************************************************************************)
(* C34: the ids the coordinator submits to the recording stream strictly   *)
(* increase over all its appends (finished=0 at the id of the start,       *)
(* finished=1 at the id of the last written frame), for any sequence of    *)
(* requests: no append is rejected by the store for id order, and the loop *)
(* is never halted by such a rejection.                                    *)
(***************************************************************************)
\* The id the coordinator is about to submit, when it is about to submit.
C34_Submits(id) ==
  \/ /\ rec_pc = "announce"
     /\ opens_entry(start_timestamp, last_recorded_frame_timestamp)
     /\ id = start_timestamp
  \/ /\ rec_pc = "while"
     /\ ~ loop_continues(last_recorded_frame_timestamp, end_timestamp)
     /\ video_writer # None
     /\ id = last_recorded_frame_timestamp

C34_IdsIncrease ==
  /\ rec_pc # "crashed"
  /\ \A id \in 0..(T0 + Horizon) :
       C34_Submits(id) => id > recordings_top(rs_recordings)

(***************************************************************************)
(* C35: every finished=1 record describes its file: the file it names      *)
(* holds exactly the fetchable capture frames with a timestamp in          *)
(* [record.start, record.end], the last of them at record.end.             *)
(***************************************************************************)
\* What the file holds: the frames of the last writer opened on that path
\* (a writer opened on an existing path replaces the file).
C35_Content(file) ==
  LET writers == {i \in DOMAIN rec_files : rec_files[i].file = file}
  IN IF writers = {} THEN << >>
     ELSE rec_files[CHOOSE i \in writers : \A j \in writers : j <= i].frames

C35_RecordDescribesFile ==
  \A i \in DOMAIN rs_recordings :
    rs_recordings[i].finished = 1 =>
      LET r == rs_recordings[i]
          content == C35_Content(r.file)
      IN /\ content = SortedSeq({t \in rs_blobs : r.start <= t /\ t <= r.end})
         /\ content # << >>
         /\ content[Len(content)] = r.end

(***************************************************************************)
(* C36: no recording file is opened for writing twice: every video writer  *)
(* the coordinator opens uses a path that no earlier writer of the loop    *)
(* used, for any sequence of requests.                                     *)
(***************************************************************************)
C36_PathsDistinct ==
  \A i, j \in DOMAIN rec_files :
    i < j => rec_files[i].file # rec_files[j].file

(***************************************************************************)
(* C37: within one recording file the frames are written in strictly       *)
(* increasing timestamp order: no frame is written twice, the frame at the *)
(* last recorded timestamp included, when the interval is extended and the *)
(* inclusive range scan is repeated.                                       *)
(***************************************************************************)
C37_FramesIncrease ==
  \A i \in DOMAIN rec_files :
    \A m, n \in DOMAIN rec_files[i].frames :
      m < n => rec_files[i].frames[m] < rec_files[i].frames[n]

(***************************************************************************)
(* C38: the coordinator's last-recorded-frame timestamp never decreases    *)
(* over the life of the loop, across requests, extensions and skipped      *)
(* records, and it always equals the timestamp of the most recently        *)
(* written frame, or the minimum timestamp if none was written.            *)
(***************************************************************************)
\* The frame written last: the last frame of the writer opened last.
C38_LastWritten ==
  IF rec_files = << >> THEN UTC_DATETIME_MIN
  ELSE LET frames == rec_files[Len(rec_files)].frames
       IN frames[Len(frames)]

C38_LastRecordedMonotonic ==
  /\ [](last_recorded_frame_timestamp = C38_LastWritten)
  /\ [][last_recorded_frame_timestamp' >= last_recorded_frame_timestamp]_vars

\* Two requests were served, records without a blob were skipped in the
\* first, and frames went to two files.
C38_Witness ==
  /\ rec_pops = 2
  /\ rec_pc = "blpop"
  /\ Len(rec_files) = 2
  /\ \E t \in rs_capture \ rs_blobs : rq_submitted[1][1] <= t
  /\ last_recorded_frame_timestamp = C38_LastWritten
  /\ last_recorded_frame_timestamp > rec_files[1].frames[Len(rec_files[1].frames)]

(***************************************************************************)
(* C39: every doorbell press followed by a release results in a recording  *)
(* request being queued, for every press duration, a press whose release   *)
(* edge falls inside the debounce window opened by the press edge          *)
(* included: once no callback is waiting to run, at least as many requests *)
(* were made as presses were released.                                     *)
(***************************************************************************)
\* The edges alternate, the first one being a press.
C39_Released == Len(gp_edges) \div 2

C39_PressReleaseQueued ==
  (gp_debounce = DOORBELL_DEBOUNCE_MS /\ gp_pending = 0)
    => Len(gp_records) >= C39_Released

(***************************************************************************)
(* C40: if a record is appended to a stream and no newer record is         *)
(* appended after it, a running sample_stream consumer eventually yields   *)
(* that record, under fair scheduling of the poll loop, also after the     *)
(* stream was trimmed or was empty when the consumer started; and the      *)
(* consumer stops on its timeout only when the newest record was yielded.  *)
(***************************************************************************)
C40_Yielded(id) == id \in Range(ss_yielded)

C40_StopsOnlyWhenDelivered ==
  (ss_pc # "stopped" /\ ss_pc' = "stopped")
    => (ss_stream = << >> \/ C40_Yielded(ss_topid))

C40_NewestYielded ==
  /\ \A id \in 1..MaxId :
       (ss_topid = id) ~>
         (C40_Yielded(id) \/ ss_topid # id \/ ss_pc = "stopped")
  /\ [][C40_StopsOnlyWhenDelivered]_vars

\* The newest record was yielded after an earlier one that the store has
\* trimmed away since, by a consumer that started on an empty stream.
C40_Witness ==
  /\ Len(ss_yielded) >= 2
  /\ ss_yielded[Len(ss_yielded)] = ss_topid
  /\ ss_yielded[1] \notin Range(ss_stream)
  /\ ss_pc = "poll"

=============================================================================
